---- MODULE Spec2Model ----
(***************************************************************************)
(* A model of airule's selective-clear-and-copy engine: the Copier         *)
(* (matchesAnyPattern, checkPreservationRecursiveWithBase,                 *)
(* clearDestinationDir, CopyFiles, copyFile, copyDir), the Finder          *)
(* (FindFiles, shouldInclude) and the App (matchesAnyPattern, Run).         *)
(*                                                                         *)
(* Strings are sequences of one-character strings, so that glob matching,  *)
(* prefix/suffix tests, filepath.Base, filepath.Dir and filepath.Rel are    *)
(* computed character by character as the Go code computes them.  A file   *)
(* system is a function from relative path strings to nodes; the key <<>>  *)
(* is the root directory (toDir or fromDir) itself.  A second machine runs *)
(* CopyFiles on one tree that holds fromDir and toDir, with copyDir        *)
(* modelled call by call.                                                  *)
(***************************************************************************)
EXTENDS Integers, Sequences, FiniteSets, TLC

\* ------------------------------------------------------------------------
\* Characters and strings
\* ------------------------------------------------------------------------

\* filepath.Separator
Sep == "/"

\* Byte values of the characters used by the bounded universe (ASCII).
Ord(c) ==
  CASE c = "*" -> 42
    [] c = "." -> 46
    [] c = "/" -> 47
    [] c = "?" -> 63
    [] c = "a" -> 97
    [] c = "c" -> 99
    [] c = "d" -> 100
    [] c = "e" -> 101
    [] c = "g" -> 103
    [] c = "h" -> 104
    [] c = "i" -> 105
    [] c = "j" -> 106
    [] c = "k" -> 107
    [] c = "n" -> 110
    [] c = "o" -> 111
    [] c = "p" -> 112
    [] c = "s" -> 115
    [] c = "t" -> 116
    [] OTHER -> 122

\* Go string comparison s < t (bytewise lexical order).
RECURSIVE StrLess(_, _)
StrLess(s, t) ==
  IF t = <<>> THEN FALSE
  ELSE IF s = <<>> THEN TRUE
  ELSE IF Ord(Head(s)) < Ord(Head(t)) THEN TRUE
  ELSE IF Ord(Head(s)) > Ord(Head(t)) THEN FALSE
  ELSE StrLess(Tail(s), Tail(t))

\* strings.HasPrefix
HasPrefix(s, p) == Len(s) >= Len(p) /\ SubSeq(s, 1, Len(p)) = p

\* strings.HasSuffix
HasSuffix(s, p) == Len(s) >= Len(p) /\ SubSeq(s, Len(s) - Len(p) + 1, Len(s)) = p

\* strings.TrimSuffix
TrimSuffix(s, p) == IF HasSuffix(s, p) THEN SubSeq(s, 1, Len(s) - Len(p)) ELSE s

\* strings.Contains(s, c) for a one-character c
Contains(s, c) == \E i \in 1..Len(s) : s[i] = c

\* Index of the last separator of s, 0 when there is none.
LastSep(s) ==
  IF Contains(s, Sep) THEN CHOOSE i \in 1..Len(s) : s[i] = Sep /\ \A j \in (i+1)..Len(s) : s[j] # Sep
  ELSE 0

\* filepath.Base for cleaned paths (no trailing separator).
Base(s) ==
  IF s = <<>> THEN <<".">>
  ELSE IF s = <<Sep>> THEN <<Sep>>
  ELSE SubSeq(s, LastSep(s) + 1, Len(s))

\* filepath.Dir for cleaned paths.
Dir(s) ==
  IF LastSep(s) = 0 THEN <<".">>
  ELSE IF LastSep(s) = 1 THEN <<Sep>>
  ELSE SubSeq(s, 1, LastSep(s) - 1)

\* filepath.Join(a, b) for cleaned a and b; an empty element is ignored.
Join(a, b) ==
  IF a = <<>> THEN b
  ELSE IF b = <<>> THEN a
  ELSE a \o <<Sep>> \o b

\* Number of separators in s.
RECURSIVE CountSep(_)
CountSep(s) ==
  IF s = <<>> THEN 0
  ELSE (IF Head(s) = Sep THEN 1 ELSE 0) + CountSep(Tail(s))

\* "../.." with n components.
RECURSIVE DotDots(_)
DotDots(n) ==
  IF n <= 1 THEN <<".", ".">>
  ELSE <<".", ".", Sep>> \o DotDots(n - 1)

\* filepath.Rel(base, target) for absolute cleaned paths where one of the two
\* is a prefix of the other (the only cases the preservation check produces).
Rel(base, target) ==
  IF target = base THEN <<".">>
  ELSE IF HasPrefix(target, base \o <<Sep>>) THEN SubSeq(target, Len(base) + 2, Len(target))
  ELSE IF target = <<Sep>> THEN DotDots(CountSep(base))
  ELSE DotDots(CountSep(base) - CountSep(target))

\* filepath.Match(pattern, name) for patterns built from literal characters,
\* '*' (any run of non-separator characters) and '?' (one non-separator
\* character); the bounded pattern universe has no '[' class and no '\'.
RECURSIVE Match(_, _)
Match(pattern, name) ==
  IF pattern = <<>> THEN name = <<>>
  ELSE IF Head(pattern) = "*" THEN
    \E k \in 0..Len(name) :
      /\ \A i \in 1..k : name[i] # Sep
      /\ Match(Tail(pattern), SubSeq(name, k + 1, Len(name)))
  ELSE IF name = <<>> THEN FALSE
  ELSE IF Head(pattern) = "?" THEN Head(name) # Sep /\ Match(Tail(pattern), Tail(name))
  ELSE Head(pattern) = Head(name) /\ Match(Tail(pattern), Tail(name))

\* name[0] == '.'
IsHiddenName(name) == Len(name) > 0 /\ name[1] = "."

\* The pattern is a scope form "dir/*" or "dir/**".
IsScopeForm(pattern) == HasSuffix(pattern, <<Sep, "*">>) \/ HasSuffix(pattern, <<Sep, "*", "*">>)

\* strings.TrimSuffix(strings.TrimSuffix(pattern, "*"), "/")
DirPattern(pattern) == TrimSuffix(TrimSuffix(pattern, <<"*">>), <<Sep>>)

\* ------------------------------------------------------------------------
\* Copier: pattern matching (package copier)
\* ------------------------------------------------------------------------

\* One iteration of the loop of copier.matchesAnyPattern: the path matches
\* this pattern.
CopierMatchesPattern(filePath, pattern) ==
  LET base == Base(filePath)
      matchPath == Match(pattern, filePath)
      matchBase == IF ~Contains(pattern, Sep) THEN Match(pattern, base) ELSE FALSE
      dirPattern == DirPattern(pattern)
  IN \/ matchPath \/ matchBase
     \/ /\ IsScopeForm(pattern)
        /\ \/ dirPattern # <<>> /\ HasPrefix(filePath, dirPattern \o <<Sep>>)
           \/ filePath = dirPattern
     \/ Contains(pattern, "*") /\ Match(pattern, filePath)

\* copier.matchesAnyPattern
matchesAnyPattern(filePath, patterns) ==
  \E i \in 1..Len(patterns) : CopierMatchesPattern(filePath, patterns[i])

\* ------------------------------------------------------------------------
\* App: pattern matching of the preselection (package app)
\* ------------------------------------------------------------------------

\* One iteration of the loop of app.matchesAnyPattern: the path matches this
\* pattern.
AppMatchesPattern(filePath, pattern) ==
  LET base == Base(filePath)
      matchPath == Match(pattern, filePath)
      matchBase == IF ~Contains(pattern, Sep) THEN Match(pattern, base) ELSE FALSE
      dirPattern == DirPattern(pattern)
  IN \/ matchPath \/ matchBase
     \/ /\ IsScopeForm(pattern)
        /\ \/ dirPattern # <<>> /\ HasPrefix(filePath, dirPattern \o <<Sep>>)
           \/ filePath = dirPattern

\* app.matchesAnyPattern
AppMatchesAnyPattern(filePath, patterns) ==
  \E i \in 1..Len(patterns) : AppMatchesPattern(filePath, patterns[i])

\* ------------------------------------------------------------------------
\* File system
\* ------------------------------------------------------------------------

\* The key of the root directory of a tree.
Root == <<>>

\* Permission bits, written in decimal: 0755 and 0644.
Perm0755 == 493
Perm0644 == 420

\* Permission bits of the entries of the runs with faults: 0700 (a toDir
\* that is not 0755), 0600 (an existing destination file) and 0000 (a
\* source file that os.Open cannot open).
Perm0700 == 448
Perm0600 == 384
Perm0000 == 0

DirNode(mode) == [kind |-> "dir", content |-> <<>>, mode |-> mode]
FileNode(content, mode) == [kind |-> "file", content |-> content, mode |-> mode]

\* p is q or lies beneath q.
Under(p, q) == q = Root \/ p = q \/ HasPrefix(p, q \o <<Sep>>)

\* p lies strictly beneath q.
StrictlyUnder(p, q) == p # q /\ Under(p, q)

\* The key of the parent directory of p.
Parent(p) == IF LastSep(p) = 0 THEN Root ELSE SubSeq(p, 1, LastSep(p) - 1)

\* The proper ancestors of p below the root.
Ancestors(p) == {SubSeq(p, 1, i - 1) : i \in {j \in 1..Len(p) : p[j] = Sep}}

\* The entries of directory p (os.ReadDir), as a set of keys.
Children(fs, p) == {q \in DOMAIN fs : q # Root /\ Parent(q) = p}

\* os.ReadDir returns the entries sorted by file name.
RECURSIVE SortedSeq(_)
SortedSeq(S) ==
  IF S = {} THEN <<>>
  ELSE LET m == CHOOSE x \in S : \A y \in S \ {x} : StrLess(x, y)
       IN <<m>> \o SortedSeq(S \ {m})

ReadDir(fs, p) == SortedSeq(Children(fs, p))

\* The part of fs that os.RemoveAll(p) deletes: p and everything beneath it,
\* except entries that cannot be removed and the directories that hold them.
RemovedBy(fs, p, stuck) ==
  {q \in DOMAIN fs : Under(q, p) /\ ~\E u \in stuck : u \in DOMAIN fs /\ Under(u, q)}

\* os.RemoveAll(p)
RemoveAll(fs, p, stuck) ==
  [q \in (DOMAIN fs) \ RemovedBy(fs, p, stuck) |-> fs[q]]

\* os.RemoveAll(p) reports an error.
RemoveAllFails(fs, p, stuck) == \E u \in stuck : u \in DOMAIN fs /\ Under(u, p)

\* os.MkdirAll(p, mode) fails: a component of p exists and is not a directory.
MkdirAllFails(fs, p) ==
  \E a \in Ancestors(p) \cup {p} : a \in DOMAIN fs /\ fs[a].kind # "dir"

\* os.MkdirAll(p, mode): creates p and the missing directories above it.
MkdirAll(fs, p, mode) ==
  LET need == (Ancestors(p) \cup {p, Root}) \ DOMAIN fs
  IN [q \in (DOMAIN fs) \cup need |-> IF q \in need THEN DirNode(mode) ELSE fs[q]]

\* The tree without permission bits: paths, kinds and contents.
Shape(fs) == [q \in DOMAIN fs |-> [kind |-> fs[q].kind, content |-> fs[q].content]]

\* ------------------------------------------------------------------------
\* Copier: state
\* ------------------------------------------------------------------------

VARIABLES
  toDir,          \* CopyFiles argument: absolute path of the destination
  excl,           \* CopyFiles argument cleanExcludePatterns
  cleanDest,      \* CopyFiles argument cleanDest
  relativePaths,  \* CopyFiles argument relativePaths
  srcFS,          \* the tree under fromDir
  dstFS,          \* the tree under toDir
  unreadable,     \* destination directories whose os.ReadDir fails
  unremovable,    \* destination paths whose removal fails
  pc,             \* position of CopyFiles: start, sweep, copy, done, idle
  pathsToRemove,  \* clearDestinationDir: the paths not yet visited by the sweep
  idx,            \* CopyFiles: index of the next element of relativePaths
  err,            \* the error CopyFiles returned ("" is nil)
  run,            \* number of the current CopyFiles call
  dst0,           \* the tree under toDir when the current call started
  removed         \* history: the removals of the sweeps, one record per os.RemoveAll

copierVars == <<toDir, excl, cleanDest, relativePaths, srcFS, dstFS, unreadable,
                unremovable, pc, pathsToRemove, idx, err, run, dst0, removed>>

\* Finder: state
VARIABLES
  rootFS,       \* the tree under rootDir (<<>> when rootDir does not exist)
  rootErr,      \* why rootDir cannot be statted: none, permission, other
  denied,       \* the directories whose entries cannot be read (permission)
  includes,     \* FindFiles argument includes
  excludes,     \* FindFiles argument excludes
  fpc,          \* position of FindFiles: stat, walk, combine, done, panic, idle
  walkStack,    \* filepath.WalkDir: the paths still to visit, next first
  foundFiles,   \* FindFiles: foundFiles
  parentDirs,   \* FindFiles: parentDirs
  results,      \* the slice FindFiles returned
  ferr          \* the error FindFiles returned ("" is nil)

finderVars == <<rootFS, rootErr, denied, includes, excludes, fpc, walkStack, foundFiles, parentDirs,
                results, ferr>>

\* App: state
VARIABLES
  selectAll,    \* cliArgs.SelectAll
  preSelect,    \* cliArgs.PreSelect
  apc,          \* position of App.Run: find, select, confirm, copy, done, idle
  preselected,  \* Run: the keys of preselectedMap (indices from 0)
  selOutcome,   \* what fuzzyfinder.FindMulti returned: "", abort, error, ok
  indices,      \* Run: the indices FindMulti returned (from 0)
  response,     \* Run: the word fmt.Scanln stored in response
  aerr          \* the error Run returned ("" is nil)

appVars == <<selectAll, preSelect, apc, preselected, selOutcome, indices, response, aerr>>

\* CopyFiles on one tree that holds both fromDir and toDir: state
VARIABLES
  tree,         \* the file system, keyed by the path below its root
  nTo,          \* CopyFiles argument toDir
  nClean,       \* CopyFiles argument cleanDest
  nList,        \* CopyFiles argument relativePaths
  npc,          \* position of CopyFiles: start, loop, done, idle
  nIdx,         \* CopyFiles: index of the next element of relativePaths
  stack,        \* the copyDir calls in progress, innermost first
  nerr          \* the error CopyFiles returned ("" is nil)

nestVars == <<tree, nTo, nClean, nList, npc, nIdx, stack, nerr>>

\* No CopyFiles call on a shared tree is running.
NestIdle ==
  /\ tree = <<>>
  /\ nTo = <<>>
  /\ nClean = FALSE
  /\ nList = <<>>
  /\ npc = "idle"
  /\ nIdx = 1
  /\ stack = <<>>
  /\ nerr = ""

\* filepath.Join(toDir, rel)
AbsDst(rel) == Join(toDir, rel)

\* ------------------------------------------------------------------------
\* Copier: preservation check
\* ------------------------------------------------------------------------

\* Step 2 of checkPreservationRecursiveWithBase: the loop over the parent
\* directories of currentPath, which ends at "/" (or "." for a relative path).
RECURSIVE ParentPreserved(_, _, _)
ParentPreserved(currentPath, baseDir, patterns) ==
  LET parent == Dir(currentPath)
      parentRelPath == IF baseDir # <<>> THEN Rel(baseDir, parent) ELSE parent
      parentName == Base(parent)
  IN IF parent = currentPath \/ parent = <<".">> \/ parent = <<Sep>> THEN FALSE
     ELSE IF IsHiddenName(parentName) \/ matchesAnyPattern(parentRelPath, patterns) THEN TRUE
     ELSE ParentPreserved(parent, baseDir, patterns)

\* Step 3 of checkPreservationRecursiveWithBase, first loop: a pattern names
\* this directory (scope form) or a file directly inside it (dir/<glob>).
DirTargeted(relPath, patterns) ==
  \E i \in 1..Len(patterns) :
    \/ IsScopeForm(patterns[i]) /\ relPath = DirPattern(patterns[i])
    \/ /\ Contains(patterns[i], Sep) /\ Contains(patterns[i], "*")
       /\ relPath = Dir(patterns[i])

\* checkPreservationRecursiveWithBase(filepath.Join(baseDir, rel), baseDir,
\* patterns) on the tree fs: "true", "false" or "err".
RECURSIVE checkPreservationRecursiveWithBase(_, _, _, _, _)
RECURSIVE CheckEntries(_, _, _, _, _)
checkPreservationRecursiveWithBase(fs, rel, baseDir, patterns, noread) ==
  LET path == Join(baseDir, rel)
      relPath == IF baseDir # <<>> THEN Rel(baseDir, path) ELSE path
      name == Base(path)
  IN IF rel \notin DOMAIN fs THEN "false"
     ELSE IF IsHiddenName(name) \/ matchesAnyPattern(relPath, patterns) THEN "true"
     ELSE IF ParentPreserved(path, baseDir, patterns) THEN "true"
     ELSE IF fs[rel].kind = "dir" THEN
       IF DirTargeted(relPath, patterns) THEN "true"
       ELSE IF rel \in noread THEN "err"
       ELSE CheckEntries(fs, ReadDir(fs, rel), baseDir, patterns, noread)
     ELSE "false"

\* A check that judges a directory by its own name and never by its entries.
CheckEntriesSkipped(fs, entries, baseDir, patterns, noread) == "false"

\* The loop over the entries of a directory: the first entry that is
\* preserved or fails decides.
CheckEntries(fs, entries, baseDir, patterns, noread) ==
  IF entries = <<>> THEN "false"
  ELSE LET r == checkPreservationRecursiveWithBase(fs, Head(entries), baseDir, patterns, noread)
       IN IF r = "false" THEN CheckEntries(fs, Tail(entries), baseDir, patterns, noread)
          ELSE r

\* ------------------------------------------------------------------------
\* Copier: copyFile and copyDir.  Both return [ok, fs]: whether the call
\* returned nil, and the destination tree it left.
\* ------------------------------------------------------------------------

\* A copyFile that opens the destination for appending instead of truncating.
copyFileAppend(sfs, dfs, rel) ==
  LET dstDir == Parent(rel)
      made == MkdirAll(dfs, dstDir, Perm0755)
      exists == rel \in DOMAIN made
  IN IF MkdirAllFails(dfs, dstDir) THEN [ok |-> FALSE, fs |-> dfs]
     ELSE IF rel \notin DOMAIN sfs THEN [ok |-> FALSE, fs |-> made]
     ELSE IF exists /\ made[rel].kind = "dir" THEN [ok |-> FALSE, fs |-> made]
     ELSE [ok |-> TRUE,
           fs |-> [q \in (DOMAIN made) \cup {rel} |->
                     IF q # rel THEN made[q]
                     ELSE FileNode((IF exists THEN made[rel].content ELSE <<>>) \o sfs[rel].content,
                                   IF exists THEN made[rel].mode ELSE sfs[rel].mode)]]

\* A copyFile that creates the destination file and streams nothing into it.
copyFileNoContent(sfs, dfs, rel) ==
  LET dstDir == Parent(rel)
      made == MkdirAll(dfs, dstDir, Perm0755)
  IN IF MkdirAllFails(dfs, dstDir) THEN [ok |-> FALSE, fs |-> dfs]
     ELSE IF rel \notin DOMAIN sfs THEN [ok |-> FALSE, fs |-> made]
     ELSE IF rel \in DOMAIN made /\ made[rel].kind = "dir" THEN [ok |-> FALSE, fs |-> made]
     ELSE [ok |-> TRUE,
           fs |-> [q \in (DOMAIN made) \cup {rel} |->
                     IF q # rel THEN made[q]
                     ELSE FileNode(<<>>, sfs[rel].mode)]]

\* copyFile(filepath.Join(fromDir, rel), filepath.Join(toDir, rel)):
\* os.MkdirAll of the parent, os.Open of the source (fails for a missing
\* source and for one without permission bits), os.OpenFile with
\* O_CREATE|O_TRUNC and the source mode (the mode is used only when the file
\* is created), io.Copy.
copyFile(sfs, dfs, rel) ==
  LET dstDir == Parent(rel)
      made == MkdirAll(dfs, dstDir, Perm0755)
  IN IF MkdirAllFails(dfs, dstDir) THEN [ok |-> FALSE, fs |-> dfs]
     ELSE IF rel \notin DOMAIN sfs \/ sfs[rel].mode = Perm0000 THEN [ok |-> FALSE, fs |-> made]
     ELSE IF rel \in DOMAIN made /\ made[rel].kind = "dir" THEN [ok |-> FALSE, fs |-> made]
     ELSE [ok |-> TRUE,
           fs |-> [q \in (DOMAIN made) \cup {rel} |->
                     IF q # rel THEN made[q]
                     ELSE FileNode(sfs[rel].content,
                                   IF rel \in DOMAIN made THEN made[rel].mode
                                   ELSE sfs[rel].mode)]]

\* A removal loop that does not skip the hidden entries.
RECURSIVE RemoveEntriesHiddenToo(_, _, _)
RemoveEntriesHiddenToo(dfs, entries, stuck) ==
  IF entries = <<>> THEN [ok |-> TRUE, fs |-> dfs]
  ELSE IF RemoveAllFails(dfs, Head(entries), stuck)
       THEN [ok |-> FALSE, fs |-> RemoveAll(dfs, Head(entries), stuck)]
  ELSE RemoveEntriesHiddenToo(RemoveAll(dfs, Head(entries), stuck), Tail(entries), stuck)

\* The loop of copyDir that removes the non-hidden entries of the existing
\* destination directory; it stops at the first removal that fails.
RECURSIVE RemoveEntries(_, _, _)
RemoveEntries(dfs, entries, stuck) ==
  IF entries = <<>> THEN [ok |-> TRUE, fs |-> dfs]
  ELSE IF IsHiddenName(Base(Head(entries))) THEN RemoveEntries(dfs, Tail(entries), stuck)
  ELSE IF RemoveAllFails(dfs, Head(entries), stuck)
       THEN [ok |-> FALSE, fs |-> RemoveAll(dfs, Head(entries), stuck)]
  ELSE RemoveEntries(RemoveAll(dfs, Head(entries), stuck), Tail(entries), stuck)

\* os.Chmod(p, mode)
Chmod(fs, p, mode) == [fs EXCEPT ![p].mode = mode]

RECURSIVE CopyEntries(_, _, _, _, _)

\* A copyDir that copies into the existing destination directory without
\* removing its entries first.
copyDirMerges(sfs, dfs, rel, noread, stuck) ==
  LET prepared ==
        IF rel \in DOMAIN dfs THEN
          IF dfs[rel].kind # "dir" \/ rel \in noread THEN [ok |-> FALSE, fs |-> dfs]
          ELSE [ok |-> TRUE, fs |-> dfs]
        ELSE IF MkdirAllFails(dfs, rel) THEN [ok |-> FALSE, fs |-> dfs]
        ELSE [ok |-> TRUE, fs |-> MkdirAll(dfs, rel, Perm0755)]
  IN IF ~prepared.ok THEN prepared
     ELSE IF rel \notin DOMAIN sfs THEN [ok |-> FALSE, fs |-> prepared.fs]
     ELSE CopyEntries(sfs, Chmod(prepared.fs, rel, sfs[rel].mode), ReadDir(sfs, rel), noread, stuck)

\* copyDir(filepath.Join(fromDir, rel), filepath.Join(toDir, rel))
RECURSIVE copyDir(_, _, _, _, _)
copyDir(sfs, dfs, rel, noread, stuck) ==
  LET prepared ==
        IF rel \in DOMAIN dfs THEN
          IF dfs[rel].kind # "dir" \/ rel \in noread THEN [ok |-> FALSE, fs |-> dfs]
          ELSE RemoveEntries(dfs, ReadDir(dfs, rel), stuck)
        ELSE IF MkdirAllFails(dfs, rel) THEN [ok |-> FALSE, fs |-> dfs]
        ELSE [ok |-> TRUE, fs |-> MkdirAll(dfs, rel, Perm0755)]
  IN IF ~prepared.ok THEN prepared
     ELSE IF rel \notin DOMAIN sfs THEN [ok |-> FALSE, fs |-> prepared.fs]
     ELSE CopyEntries(sfs, Chmod(prepared.fs, rel, sfs[rel].mode), ReadDir(sfs, rel), noread, stuck)

\* The loop of copyDir over the entries of the source directory; it stops at
\* the first entry whose copy fails.
CopyEntries(sfs, dfs, entries, noread, stuck) ==
  IF entries = <<>> THEN [ok |-> TRUE, fs |-> dfs]
  ELSE LET r == IF sfs[Head(entries)].kind = "dir"
                THEN copyDir(sfs, dfs, Head(entries), noread, stuck)
                ELSE copyFile(sfs, dfs, Head(entries))
       IN IF ~r.ok THEN r
          ELSE CopyEntries(sfs, r.fs, Tail(entries), noread, stuck)

\* ------------------------------------------------------------------------
\* Bounded universe of the Copier
\* ------------------------------------------------------------------------

\* Longest relativePaths list.
MaxSelect == 2

\* Number of consecutive CopyFiles calls with the same arguments.
MaxRuns == 2

\* Path strings.
pO == <<"o">>
pC == <<"c">>
pCH == <<"c", "/", ".", "h">>
pCK == <<"c", "/", "k", ".", "j">>
pCO == <<"c", "/", "o">>
pCN == <<"c", "/", "n">>
pCS == <<"c", "/", "s">>
pCSO == <<"c", "/", "s", "/", "o">>

\* Content of the files that exist at the destination before the first call.
OldContent == <<"o", "l", "d">>

\* Entries a destination tree may hold, with their kinds.
DstTemplate ==
  [q \in {pO, pC, pCH, pCK, pCO, pCS, pCSO} |->
     IF q \in {pC, pCS} THEN DirNode(Perm0755) ELSE FileNode(OldContent, Perm0644)]

\* A tree over a set of template keys that holds the parents of its entries.
TreeOf(template, S) ==
  [q \in S \cup {Root} |-> IF q = Root THEN DirNode(Perm0755) ELSE template[q]]

ParentClosed(S) == \A q \in S : Ancestors(q) \subseteq S

\* The destination trees: a missing toDir, or any parent-closed part of the
\* template.
DstTrees ==
  {<<>>} \cup {TreeOf(DstTemplate, S) : S \in {T \in SUBSET DOMAIN DstTemplate : ParentClosed(T)}}

\* The source tree: every file's content is its own relative path.  c/s is a
\* file here and a directory in the destination template.
SrcTree ==
  [q \in {Root, pO, pC, pCK, pCN, pCS} |->
     IF q \in {Root, pC} THEN DirNode(Perm0755) ELSE FileNode(q, Perm0644)]

\* The paths a caller may list.
Selectable == {pO, pCK, pCS, pC}

Selections == UNION {[1..n -> Selectable] : n \in 0..MaxSelect}

\* Exclude pattern lists: none, "*.j", ".*", "c/*", "c/**", "c/*.j", "c/s",
\* "c/s/o", and the pair "o", "c/*.j".
PatternLists ==
  { <<>>,
    << <<"*", ".", "j">> >>,
    << <<".", "*">> >>,
    << <<"c", "/", "*">> >>,
    << <<"c", "/", "*", "*">> >>,
    << <<"c", "/", "*", ".", "j">> >>,
    << <<"c", "/", "s">> >>,
    << <<"c", "/", "s", "/", "o">> >>,
    << <<"o">>, <<"c", "/", "*", ".", "j">> >> }

\* Locations of the destination: /t/d, /t/.d and /.t/d.
PlainToDir == <<"/", "t", "/", "d">>
ToDirs == {PlainToDir, <<"/", "t", "/", ".", "d">>, <<"/", ".", "t", "/", "d">>}

\* The file name .gitkeep and the default of the CLI's CleanExclude.
GitKeep == <<".", "g", "i", "t", "k", "e", "e", "p">>
DefaultCleanExclude == <<GitKeep>>

\* Destination entries of the runs with .gitkeep files: .gitkeep at the top,
\* in directory c and in directory c/s, beside plain files o and c/o.
pG == GitKeep
pCG == pC \o <<Sep>> \o GitKeep
pCSG == pCS \o <<Sep>> \o GitKeep

KeepTemplate ==
  [q \in {pG, pO, pC, pCG, pCO, pCS, pCSG} |->
     IF q \in {pC, pCS} THEN DirNode(Perm0755) ELSE FileNode(OldContent, Perm0644)]

KeepTrees ==
  {<<>>} \cup {TreeOf(KeepTemplate, S) : S \in {T \in SUBSET DOMAIN KeepTemplate : ParentClosed(T)}}

\* ------------------------------------------------------------------------
\* Copier: CopyFiles as a state machine
\* ------------------------------------------------------------------------

CopierInit ==
  /\ toDir \in ToDirs
  /\ cleanDest \in BOOLEAN
  /\ excl \in (IF cleanDest THEN PatternLists ELSE {<<>>})
  /\ relativePaths \in Selections
  /\ srcFS = SrcTree
  /\ dstFS \in DstTrees
  /\ unreadable = {}
  /\ unremovable = {}
  /\ pc = "start"
  /\ pathsToRemove = {}
  /\ idx = 1
  /\ err = ""
  /\ run = 1
  /\ dst0 = dstFS
  /\ removed = {}

\* clearDestinationDir up to the sort: stat, create a missing directory, or
\* walk the tree and collect every path below dir.
ClearStart ==
  /\ pc = "start" /\ cleanDest
  /\ IF Root \notin DOMAIN dstFS THEN
       /\ dstFS' = MkdirAll(dstFS, Root, Perm0755)
       /\ pc' = "copy"
       /\ UNCHANGED <<pathsToRemove, err>>
     ELSE IF \E d \in DOMAIN dstFS : dstFS[d].kind = "dir" /\ d \in unreadable THEN
       /\ err' = "error walking destination directory"
       /\ pc' = "done"
       /\ UNCHANGED <<pathsToRemove, dstFS>>
     ELSE
       /\ pathsToRemove' = (DOMAIN dstFS) \ {Root}
       /\ pc' = "sweep"
       /\ UNCHANGED <<dstFS, err>>
  /\ UNCHANGED <<toDir, excl, cleanDest, relativePaths, srcFS, unreadable, unremovable,
                 idx, run, dst0, removed>>
  /\ UNCHANGED finderVars
  /\ UNCHANGED appVars
  /\ UNCHANGED nestVars

\* sort.Slice orders the paths by decreasing length only: any longest path
\* not yet visited may come next.
NextToRemove(p) ==
  /\ p \in pathsToRemove
  /\ \A q \in pathsToRemove : Len(AbsDst(p)) >= Len(AbsDst(q))

SweepStepStopsOnFailure ==
  /\ pc = "sweep"
  /\ \E p \in pathsToRemove :
       /\ NextToRemove(p)
       /\ LET preserve == checkPreservationRecursiveWithBase(dstFS, p, toDir, excl, unreadable)
          IN IF p \in DOMAIN dstFS /\ preserve = "false" THEN
               /\ dstFS' = RemoveAll(dstFS, p, unremovable)
               /\ removed' = removed \cup {[path |-> p, gone |-> RemovedBy(dstFS, p, unremovable)]}
               /\ pathsToRemove' = IF RemoveAllFails(dstFS, p, unremovable) THEN {}
                                   ELSE pathsToRemove \ {p}
             ELSE /\ pathsToRemove' = pathsToRemove \ {p}
                  /\ UNCHANGED <<dstFS, removed>>
  /\ UNCHANGED <<toDir, excl, cleanDest, relativePaths, srcFS, unreadable, unremovable,
                 pc, idx, err, run, dst0>>
  /\ UNCHANGED finderVars
  /\ UNCHANGED appVars
  /\ UNCHANGED nestVars

\* One iteration of the sweep loop of clearDestinationDir.
SweepStep ==
  /\ pc = "sweep"
  /\ \E p \in pathsToRemove :
       /\ NextToRemove(p)
       /\ pathsToRemove' = pathsToRemove \ {p}
       /\ LET preserve == checkPreservationRecursiveWithBase(dstFS, p, toDir, excl, unreadable)
          IN IF p \in DOMAIN dstFS /\ preserve = "false" THEN
               /\ dstFS' = RemoveAll(dstFS, p, unremovable)
               /\ removed' = removed \cup {[path |-> p, gone |-> RemovedBy(dstFS, p, unremovable)]}
             ELSE UNCHANGED <<dstFS, removed>>
  /\ UNCHANGED <<toDir, excl, cleanDest, relativePaths, srcFS, unreadable, unremovable,
                 pc, idx, err, run, dst0>>
  /\ UNCHANGED finderVars
  /\ UNCHANGED appVars
  /\ UNCHANGED nestVars

\* An end of clearDestinationDir that leaves the permission bits of dir.
SweepEndNoChmod ==
  /\ pc = "sweep" /\ pathsToRemove = {}
  /\ dstFS' = IF Root \notin DOMAIN dstFS THEN MkdirAll(dstFS, Root, Perm0755) ELSE dstFS
  /\ pc' = "copy"
  /\ UNCHANGED <<toDir, excl, cleanDest, relativePaths, srcFS, unreadable, unremovable,
                 pathsToRemove, idx, err, run, dst0, removed>>
  /\ UNCHANGED finderVars
  /\ UNCHANGED appVars
  /\ UNCHANGED nestVars

\* The end of clearDestinationDir: dir exists with permission bits 0755.
SweepEnd ==
  /\ pc = "sweep" /\ pathsToRemove = {}
  /\ dstFS' = IF Root \notin DOMAIN dstFS THEN MkdirAll(dstFS, Root, Perm0755)
              ELSE IF dstFS[Root].mode # Perm0755 THEN Chmod(dstFS, Root, Perm0755)
              ELSE dstFS
  /\ pc' = "copy"
  /\ UNCHANGED <<toDir, excl, cleanDest, relativePaths, srcFS, unreadable, unremovable,
                 pathsToRemove, idx, err, run, dst0, removed>>
  /\ UNCHANGED finderVars
  /\ UNCHANGED appVars
  /\ UNCHANGED nestVars

\* CopyFiles with cleanDest false: os.MkdirAll(toDir, 0755).
EnsureDest ==
  /\ pc = "start" /\ ~cleanDest
  /\ dstFS' = MkdirAll(dstFS, Root, Perm0755)
  /\ pc' = "copy"
  /\ UNCHANGED <<toDir, excl, cleanDest, relativePaths, srcFS, unreadable, unremovable,
                 pathsToRemove, idx, err, run, dst0, removed>>
  /\ UNCHANGED finderVars
  /\ UNCHANGED appVars
  /\ UNCHANGED nestVars

CopyStepRollsBack ==
  /\ pc = "copy" /\ idx <= Len(relativePaths)
  /\ LET relPath == relativePaths[idx]
         r == IF relPath \notin DOMAIN srcFS THEN [ok |-> FALSE, fs |-> dstFS]
              ELSE IF srcFS[relPath].kind = "dir"
                   THEN copyDir(srcFS, dstFS, relPath, unreadable, unremovable)
                   ELSE copyFile(srcFS, dstFS, relPath)
     IN /\ dstFS' = IF r.ok THEN r.fs ELSE dst0
        /\ IF r.ok THEN /\ idx' = idx + 1
                        /\ UNCHANGED <<pc, err>>
           ELSE /\ pc' = "done"
                /\ err' = "failed to copy"
                /\ UNCHANGED idx
  /\ UNCHANGED <<toDir, excl, cleanDest, relativePaths, srcFS, unreadable, unremovable,
                 pathsToRemove, run, dst0, removed>>
  /\ UNCHANGED finderVars
  /\ UNCHANGED appVars
  /\ UNCHANGED nestVars

\* One iteration of the copy loop of CopyFiles.
CopyStep ==
  /\ pc = "copy" /\ idx <= Len(relativePaths)
  /\ LET relPath == relativePaths[idx]
         r == IF relPath \notin DOMAIN srcFS THEN [ok |-> FALSE, fs |-> dstFS]
              ELSE IF srcFS[relPath].kind = "dir"
                   THEN copyDir(srcFS, dstFS, relPath, unreadable, unremovable)
                   ELSE copyFile(srcFS, dstFS, relPath)
     IN /\ dstFS' = r.fs
        /\ IF r.ok THEN /\ idx' = idx + 1
                        /\ UNCHANGED <<pc, err>>
           ELSE /\ pc' = "done"
                /\ err' = "failed to copy"
                /\ UNCHANGED idx
  /\ UNCHANGED <<toDir, excl, cleanDest, relativePaths, srcFS, unreadable, unremovable,
                 pathsToRemove, run, dst0, removed>>
  /\ UNCHANGED finderVars
  /\ UNCHANGED appVars
  /\ UNCHANGED nestVars

\* A CopyFiles that clears the destination once more after the copy loop.
CopyReturnSweeps ==
  /\ pc = "copy" /\ idx > Len(relativePaths)
  /\ IF cleanDest /\ pathsToRemove = {} /\ (DOMAIN dstFS) \ {Root} # {}
       THEN /\ pc' = "sweep"
            /\ pathsToRemove' = (DOMAIN dstFS) \ {Root}
       ELSE /\ pc' = "done"
            /\ pathsToRemove' = {}
  /\ UNCHANGED <<toDir, excl, cleanDest, relativePaths, srcFS, dstFS, unreadable,
                 unremovable, idx, err, run, dst0, removed>>
  /\ UNCHANGED finderVars
  /\ UNCHANGED appVars
  /\ UNCHANGED nestVars

\* CopyFiles returns nil after the last listed path.
CopyReturn ==
  /\ pc = "copy" /\ idx > Len(relativePaths)
  /\ pc' = "done"
  /\ UNCHANGED <<toDir, excl, cleanDest, relativePaths, srcFS, dstFS, unreadable,
                 unremovable, pathsToRemove, idx, err, run, dst0, removed>>
  /\ UNCHANGED finderVars
  /\ UNCHANGED appVars
  /\ UNCHANGED nestVars

\* The caller runs CopyFiles again with the same arguments.
Again ==
  /\ pc = "done" /\ run < MaxRuns
  /\ run' = run + 1
  /\ pc' = "start"
  /\ idx' = 1
  /\ err' = ""
  /\ dst0' = dstFS
  /\ UNCHANGED <<toDir, excl, cleanDest, relativePaths, srcFS, dstFS, unreadable,
                 unremovable, pathsToRemove, removed>>
  /\ UNCHANGED finderVars
  /\ UNCHANGED appVars
  /\ UNCHANGED nestVars

CopierNext ==
  \/ ClearStart \/ SweepStep \/ SweepEnd \/ EnsureDest \/ CopyStep \/ CopyReturn \/ Again

\* ------------------------------------------------------------------------
\* Finder (package finder)
\* ------------------------------------------------------------------------

\* A pattern test that never looks at the base name.
FinderMatchesPatternPathOnly(path, pattern) ==
  \/ Match(pattern, path)
  \/ /\ IsScopeForm(pattern)
     /\ \/ DirPattern(pattern) # <<>> /\ HasPrefix(path, DirPattern(pattern) \o <<Sep>>)
        \/ path = DirPattern(pattern)

\* One iteration of a pattern loop of shouldInclude: the path matches this
\* pattern by full path, by base name (pattern without separator) or by the
\* directory forms dir/* and dir/**.
FinderMatchesPattern(path, pattern) ==
  LET base == Base(path)
      matchPath == Match(pattern, path)
      matchBase == IF ~Contains(pattern, Sep) THEN Match(pattern, base) ELSE FALSE
      dirPattern == DirPattern(pattern)
  IN \/ matchPath \/ matchBase
     \/ /\ IsScopeForm(pattern)
        /\ \/ dirPattern # <<>> /\ HasPrefix(path, dirPattern \o <<Sep>>)
           \/ path = dirPattern

\* The exclude loop of shouldInclude: TRUE when it reaches "return false".
RECURSIVE ExcludeLoop(_, _)
ExcludeLoop(path, patterns) ==
  IF patterns = <<>> THEN FALSE
  ELSE IF FinderMatchesPattern(path, Head(patterns)) THEN TRUE
  ELSE ExcludeLoop(path, Tail(patterns))

\* The include loop of shouldInclude: the value of isIncluded.
RECURSIVE IncludeLoop(_, _)
IncludeLoop(path, patterns) ==
  IF patterns = <<>> THEN FALSE
  ELSE IF FinderMatchesPattern(path, Head(patterns)) THEN TRUE
  ELSE IncludeLoop(path, Tail(patterns))

\* A shouldInclude that lets an include match win over the excludes.
shouldIncludeFirst(path, incl, exc) ==
  IF incl # <<>> /\ IncludeLoop(path, incl) THEN TRUE
  ELSE IF ExcludeLoop(path, exc) THEN FALSE
  ELSE incl = <<>>

\* finder.shouldInclude
shouldInclude(path, incl, exc) ==
  IF ExcludeLoop(path, exc) THEN FALSE
  ELSE IF incl = <<>> THEN TRUE
  ELSE IncludeLoop(path, incl)

\* The directory test of the walk callback: isDirExcluded.
isDirExcluded(relPath, exc) ==
  \E i \in 1..Len(exc) :
    \/ Match(exc[i], relPath)
    \/ /\ IsScopeForm(exc[i])
       /\ \/ DirPattern(exc[i]) # <<>> /\ HasPrefix(relPath, DirPattern(exc[i]) \o <<Sep>>)
          \/ relPath = DirPattern(exc[i])

\* A parent loop that records only the directory that holds the file.
ParentDirsOfNearest(relPath) ==
  IF Dir(relPath) = <<".">> \/ Dir(relPath) = <<Sep>> THEN {} ELSE {Dir(relPath)}

\* The loop that adds the parent directories of an included file:
\* filepath.Dir until "." or "/".
RECURSIVE ParentDirsOf(_)
ParentDirsOf(relPath) ==
  LET dir == Dir(relPath)
  IN IF dir = <<".">> \/ dir = <<Sep>> THEN {}
     ELSE {dir} \cup ParentDirsOf(dir)

\* The elements of a sequence.
Range(q) == {q[i] : i \in 1..Len(q)}

\* A reversal that leaves the sequence as it is.
ReverseNot(q) == q

\* Reverse of a sequence.
Reverse(q) == [i \in 1..Len(q) |-> q[Len(q) + 1 - i]]

\* A sort in ascending order.
SortAscending(S) == SortedSeq(S)

\* sort.Sort(sort.Reverse(sort.StringSlice(finalResults)))
SortDescending(S) == Reverse(SortedSeq(S))

\* Path strings of the Finder's trees.
fA == <<"a">>
fAO == <<"a", "/", "o">>
fAN == <<"a", "/", "n">>
fANK == <<"a", "/", "n", "/", "k", ".", "j">>
fN == <<"n">>
fNK == <<"n", "/", "k", ".", "j">>
fK == <<"k", ".", "j">>
fE == <<"e">>

\* Entries a tree under rootDir may hold, with their kinds.
RootTemplate ==
  [q \in {fA, fAO, fAN, fANK, fN, fNK, fK, fE} |->
     IF q \in {fA, fAN, fN, fE} THEN DirNode(Perm0755) ELSE FileNode(q, Perm0644)]

\* The trees under rootDir: a missing rootDir, or any parent-closed part of
\* the template.
RootTrees ==
  {<<>>} \cup {TreeOf(RootTemplate, S) : S \in {T \in SUBSET DOMAIN RootTemplate : ParentClosed(T)}}

\* Include pattern lists: none, "*.j", "a/*", "o", "*/k.j", and the pair
\* "o", "n/*".
IncludeLists ==
  { <<>>,
    << <<"*", ".", "j">> >>,
    << <<"a", "/", "*">> >>,
    << <<"o">> >>,
    << <<"*", "/", "k", ".", "j">> >>,
    << <<"o">>, <<"n", "/", "*">> >> }

\* Exclude pattern lists: none, "n", "a/n", "a/*", "a/**", "*.j", "?", "a/?",
\* and the pair "o", "n/*".
ExcludeLists ==
  { <<>>,
    << <<"n">> >>,
    << <<"a", "/", "n">> >>,
    << <<"a", "/", "*">> >>,
    << <<"a", "/", "*", "*">> >>,
    << <<"*", ".", "j">> >>,
    << <<"?">> >>,
    << <<"a", "/", "?">> >>,
    << <<"o">>, <<"n", "/", "*">> >> }

FinderInit ==
  /\ rootFS \in RootTrees
  /\ rootErr = "none"
  /\ denied = {}
  /\ includes \in IncludeLists
  /\ excludes \in ExcludeLists
  /\ fpc = "stat"
  /\ walkStack = <<>>
  /\ foundFiles = <<>>
  /\ parentDirs = {}
  /\ results = <<>>
  /\ ferr = ""

\* The error of os.Stat(rootDir) and of the os.Lstat(root) of
\* filepath.WalkDir ("" is nil).
StatRoot ==
  IF rootErr # "none" THEN rootErr
  ELSE IF Root \notin DOMAIN rootFS THEN "not exist"
  ELSE ""

\* The error branch of the walk callback: what it returns when WalkDir calls
\* it with a non-nil err. d is "nil" (no entry: the Lstat of the root
\* failed), "dir" or "file"; d.IsDir() on a nil entry is a nil dereference.
WalkFnOnError(d, werr) ==
  IF werr = "permission"
  THEN IF d = "nil" THEN "panic"
       ELSE IF d = "dir" THEN "SkipDir"
       ELSE "nil"
  ELSE "nil"

\* An os.Stat check that lets every root through.
FindStatUnchecked ==
  /\ fpc = "stat"
  /\ walkStack' = <<Root>>
  /\ fpc' = "walk"
  /\ UNCHANGED <<rootFS, rootErr, denied, includes, excludes, foundFiles, parentDirs, results, ferr>>
  /\ UNCHANGED copierVars
  /\ UNCHANGED appVars
  /\ UNCHANGED nestVars

\* FindFiles up to the walk: os.Stat(rootDir); only a not-exist error
\* returns.
FindStat ==
  /\ fpc = "stat"
  /\ IF StatRoot = "not exist"
     THEN /\ ferr' = "not exist"
          /\ fpc' = "done"
          /\ UNCHANGED walkStack
     ELSE /\ walkStack' = <<Root>>
          /\ fpc' = "walk"
          /\ UNCHANGED ferr
  /\ UNCHANGED <<rootFS, rootErr, denied, includes, excludes, foundFiles, parentDirs, results>>
  /\ UNCHANGED copierVars
  /\ UNCHANGED appVars
  /\ UNCHANGED nestVars

\* A WalkDir that reads every directory, denied or not.
EnterDirAnyway(path, rest) == ReadDir(rootFS, path) \o rest

\* What filepath.WalkDir does after the callback let it enter directory
\* path: os.ReadDir; on a permission error it calls the callback a second
\* time with that error. SkipDir leaves the directory; nil goes on with the
\* entries os.ReadDir returned with its error, which are none.
EnterDir(path, rest) ==
  IF path \in denied
  THEN IF WalkFnOnError("dir", "permission") = "SkipDir" THEN rest
       ELSE <<>> \o rest
  ELSE ReadDir(rootFS, path) \o rest

\* One entry of filepath.WalkDir: the calls of the walk callback for it and
\* what WalkDir does with the answer (descend, skip, go on). When the Lstat
\* of the root fails the callback gets no entry and the error.
WalkStep ==
  /\ fpc = "walk" /\ walkStack # <<>>
  /\ LET path == Head(walkStack)
         rest == Tail(walkStack)
     IN IF path = Root /\ StatRoot # "" THEN
          /\ fpc' = IF WalkFnOnError("nil", StatRoot) = "panic" THEN "panic" ELSE fpc
          /\ walkStack' = rest
          /\ UNCHANGED <<foundFiles, parentDirs>>
        ELSE IF path = Root THEN
          /\ walkStack' = EnterDir(path, rest)
          /\ UNCHANGED <<fpc, foundFiles, parentDirs>>
        ELSE IF rootFS[path].kind = "dir" THEN
          /\ walkStack' = IF isDirExcluded(path, excludes) THEN rest
                          ELSE EnterDir(path, rest)
          /\ UNCHANGED <<fpc, foundFiles, parentDirs>>
        ELSE IF shouldInclude(path, includes, excludes) THEN
          /\ foundFiles' = Append(foundFiles, path)
          /\ parentDirs' = parentDirs \cup ParentDirsOf(path)
          /\ walkStack' = rest
          /\ UNCHANGED fpc
        ELSE
          /\ walkStack' = rest
          /\ UNCHANGED <<fpc, foundFiles, parentDirs>>
  /\ UNCHANGED <<rootFS, rootErr, denied, includes, excludes, results, ferr>>
  /\ UNCHANGED copierVars
  /\ UNCHANGED appVars
  /\ UNCHANGED nestVars

\* The end of the walk.
WalkEnd ==
  /\ fpc = "walk" /\ walkStack = <<>>
  /\ fpc' = "combine"
  /\ UNCHANGED <<rootFS, rootErr, denied, includes, excludes, walkStack, foundFiles, parentDirs, results, ferr>>
  /\ UNCHANGED copierVars
  /\ UNCHANGED appVars
  /\ UNCHANGED nestVars

\* The rest of FindFiles: found files and their parent directories that are
\* not excluded, without duplicates, sorted in reverse order.
Combine ==
  /\ fpc = "combine"
  /\ results' = SortDescending(Range(foundFiles) \cup
                   {dir \in parentDirs : shouldInclude(dir, << <<"*">> >>, excludes)})
  /\ fpc' = "done"
  /\ UNCHANGED <<rootFS, rootErr, denied, includes, excludes, walkStack, foundFiles, parentDirs, ferr>>
  /\ UNCHANGED copierVars
  /\ UNCHANGED appVars
  /\ UNCHANGED nestVars

FinderNext == FindStat \/ WalkStep \/ WalkEnd \/ Combine

\* The Finder is not running.
FinderIdle ==
  /\ rootFS = <<>>
  /\ rootErr = "none"
  /\ denied = {}
  /\ includes = <<>>
  /\ excludes = <<>>
  /\ fpc = "idle"
  /\ walkStack = <<>>
  /\ foundFiles = <<>>
  /\ parentDirs = {}
  /\ results = <<>>
  /\ ferr = ""

\* The Copier is not running.
CopierIdle ==
  /\ toDir = PlainToDir
  /\ cleanDest = FALSE
  /\ excl = <<>>
  /\ relativePaths = <<>>
  /\ srcFS = SrcTree
  /\ dstFS = <<>>
  /\ unreadable = {}
  /\ unremovable = {}
  /\ pc = "idle"
  /\ pathsToRemove = {}
  /\ idx = 1
  /\ err = ""
  /\ run = 1
  /\ dst0 = <<>>
  /\ removed = {}

\* ------------------------------------------------------------------------
\* App (package app): Run
\* ------------------------------------------------------------------------

\* The loop over files that appends the indices of the matching files.
RECURSIVE PreselectLoop(_, _, _)
PreselectLoop(files, patterns, i) ==
  IF i >= Len(files) THEN <<>>
  ELSE (IF AppMatchesAnyPattern(files[i + 1], patterns) THEN <<i>> ELSE <<>>)
         \o PreselectLoop(files, patterns, i + 1)

\* A preselection that looks at the patterns before the SelectAll flag.
PreselectedIndicesPatternsFirst(files, all, patterns) ==
  IF Len(patterns) > 0 THEN PreselectLoop(files, patterns, 0)
  ELSE IF all THEN [i \in 1..Len(files) |-> i - 1]
  ELSE <<>>

\* Run: preselectedIndices, from the SelectAll flag and the PreSelect
\* patterns.
PreselectedIndices(files, all, patterns) ==
  IF all THEN [i \in 1..Len(files) |-> i - 1]
  ELSE IF Len(patterns) > 0 THEN PreselectLoop(files, patterns, 0)
  ELSE <<>>

\* The index lists fuzzyfinder.FindMulti may return for n items: up to
\* MaxSelect different indices.
SelectorChoices(n) ==
  {q \in UNION {[1..k -> 0..(n - 1)] : k \in 0..MaxSelect} :
     \A i \in 1..Len(q) : \A j \in 1..Len(q) : i < j => q[i] < q[j]}

\* The lines a user may type at the prompt, as their words: an empty line,
\* y, Y, n, yes, and "y n".
AnswerLines == { <<>>, <<"y">>, <<"Y">>, <<"n">>, <<"yes">>, <<"y", "n">> }

\* fmt.Scanln(&response): the first word of the line; response keeps its
\* zero value when the line has none.
Scanln(line) == IF line = <<>> THEN "" ELSE Head(line)

\* Trees under cliArgs.From: missing, empty, one with files at the top and
\* in two directories, and one whose directory a holds the file a/o next to
\* the directory a/n with a/n/k.j.
AppTrees ==
  { <<>>, TreeOf(RootTemplate, {}), TreeOf(RootTemplate, {fK, fA, fAO, fN, fNK}),
    TreeOf(RootTemplate, {fA, fAO, fAN, fANK}) }

\* Trees under cliArgs.To: missing, and one with an old file and an empty
\* directory.
AppDstTrees ==
  { <<>>,
    [q \in {Root, fK, fE} |->
       IF q = fK THEN FileNode(OldContent, Perm0644) ELSE DirNode(Perm0755)] }

\* Pattern lists of the command line.
AppIncludeLists == { <<>>, << <<"*", ".", "j">> >> }
AppExcludeLists == { <<>>, << <<"n">> >>, << <<"o">> >> }
PreSelectLists == { <<>>, << <<"*", ".", "j">> >>, << <<"a", "/", "*">> >> }

\* NewApp(cliArgs), before Run.
AppInit ==
  /\ rootFS \in AppTrees
  /\ rootErr = "none"
  /\ denied = {}
  /\ includes \in AppIncludeLists
  /\ excludes \in AppExcludeLists
  /\ fpc = "stat"
  /\ walkStack = <<>>
  /\ foundFiles = <<>>
  /\ parentDirs = {}
  /\ results = <<>>
  /\ ferr = ""
  /\ toDir = PlainToDir
  /\ cleanDest \in BOOLEAN
  /\ excl = DefaultCleanExclude
  /\ relativePaths = <<>>
  /\ srcFS = rootFS
  /\ dstFS \in AppDstTrees
  /\ unreadable = {}
  /\ unremovable = {}
  /\ pc = "idle"
  /\ pathsToRemove = {}
  /\ idx = 1
  /\ err = ""
  /\ run = 1
  /\ dst0 = dstFS
  /\ removed = {}
  /\ selectAll \in BOOLEAN
  /\ preSelect \in PreSelectLists
  /\ apc = "find"
  /\ preselected = {}
  /\ selOutcome = ""
  /\ indices = <<>>
  /\ response = ""
  /\ aerr = ""
  /\ NestIdle

\* Run after finder.FindFiles returned: the two error returns and the
\* preselection.
RunPreselect ==
  /\ apc = "find" /\ fpc = "done"
  /\ IF ferr # "" THEN
       /\ aerr' = "error finding files"
       /\ apc' = "done"
       /\ UNCHANGED preselected
     ELSE IF Len(results) = 0 THEN
       /\ aerr' = "no files found matching the criteria"
       /\ apc' = "done"
       /\ UNCHANGED preselected
     ELSE
       /\ preselected' = Range(PreselectedIndices(results, selectAll, preSelect))
       /\ apc' = "select"
       /\ UNCHANGED aerr
  /\ UNCHANGED <<selectAll, preSelect, selOutcome, indices, response>>
  /\ UNCHANGED finderVars
  /\ UNCHANGED copierVars
  /\ UNCHANGED nestVars

\* fuzzyfinder.FindMulti and what Run does with its result: abort, another
\* error, or a list of indices that may be empty.
RunSelect ==
  /\ apc = "select"
  /\ \/ /\ selOutcome' = "abort"
        /\ apc' = "done"
        /\ UNCHANGED <<indices, aerr>>
     \/ /\ selOutcome' = "error"
        /\ aerr' = "error selecting files"
        /\ apc' = "done"
        /\ UNCHANGED indices
     \/ \E chosen \in SelectorChoices(Len(results)) :
          /\ selOutcome' = "ok"
          /\ indices' = chosen
          /\ apc' = IF Len(chosen) = 0 THEN "done" ELSE "confirm"
          /\ UNCHANGED aerr
  /\ UNCHANGED <<selectAll, preSelect, preselected, response>>
  /\ UNCHANGED finderVars
  /\ UNCHANGED copierVars
  /\ UNCHANGED nestVars

\* A confirmation that takes every answer but an empty one as a yes.
RunConfirmAnyAnswer ==
  /\ apc = "confirm"
  /\ \E line \in AnswerLines :
       /\ response' = Scanln(line)
       /\ IF Scanln(line) = ""
          THEN /\ apc' = "done"
               /\ UNCHANGED <<relativePaths, pc>>
          ELSE /\ apc' = "copy"
               /\ relativePaths' = [i \in 1..Len(indices) |-> results[indices[i] + 1]]
               /\ pc' = "start"
  /\ UNCHANGED <<selectAll, preSelect, preselected, selOutcome, indices, aerr>>
  /\ UNCHANGED finderVars
  /\ UNCHANGED <<toDir, excl, cleanDest, srcFS, dstFS, unreadable, unremovable,
                 pathsToRemove, idx, err, run, dst0, removed>>
  /\ UNCHANGED nestVars

\* The confirmation prompt: Run reads the answer and, for y or Y, calls
\* copier.CopyFiles with the selected files.
RunConfirm ==
  /\ apc = "confirm"
  /\ \E line \in AnswerLines :
       /\ response' = Scanln(line)
       /\ IF Scanln(line) # "y" /\ Scanln(line) # "Y"
          THEN /\ apc' = "done"
               /\ UNCHANGED <<relativePaths, pc>>
          ELSE /\ apc' = "copy"
               /\ relativePaths' = [i \in 1..Len(indices) |-> results[indices[i] + 1]]
               /\ pc' = "start"
  /\ UNCHANGED <<selectAll, preSelect, preselected, selOutcome, indices, aerr>>
  /\ UNCHANGED finderVars
  /\ UNCHANGED <<toDir, excl, cleanDest, srcFS, dstFS, unreadable, unremovable,
                 pathsToRemove, idx, err, run, dst0, removed>>
  /\ UNCHANGED nestVars

\* copier.CopyFiles returned: Run wraps its error or returns nil.
RunReturn ==
  /\ apc = "copy" /\ pc = "done"
  /\ aerr' = IF err # "" THEN "error copying files" ELSE ""
  /\ apc' = "done"
  /\ UNCHANGED <<selectAll, preSelect, preselected, selOutcome, indices, response>>
  /\ UNCHANGED finderVars
  /\ UNCHANGED copierVars
  /\ UNCHANGED nestVars

\* App.Run: FindFiles, preselection, selection, confirmation, CopyFiles.
AppNext ==
  \/ FindStat \/ WalkStep \/ WalkEnd \/ Combine
  \/ RunPreselect \/ RunSelect \/ RunConfirm
  \/ ClearStart \/ SweepStep \/ SweepEnd \/ EnsureDest \/ CopyStep \/ CopyReturn
  \/ RunReturn

\* The App is not running.
AppIdle ==
  /\ selectAll = FALSE
  /\ preSelect = <<>>
  /\ apc = "idle"
  /\ preselected = {}
  /\ selOutcome = ""
  /\ indices = <<>>
  /\ response = ""
  /\ aerr = ""

vars == <<copierVars, finderVars, appVars, nestVars>>

\* App.Run.
SpecApp == AppInit /\ [][AppNext]_vars

\* CopyFiles alone.
Init == CopierInit /\ FinderIdle /\ AppIdle /\ NestIdle

Next == CopierNext

Spec == Init /\ [][Next]_vars

\* Runs with faults: a toDir with other permission bits than 0755, existing
\* destination files with mode 0600, a destination directory that cannot be
\* read, a destination file that cannot be removed, a source file that
\* cannot be opened, a listed path that the source does not hold.
FaultDstTemplate ==
  [q \in {pO, pC, pCK, pCS, pCSO} |->
     IF q \in {pC, pCS} THEN DirNode(Perm0755) ELSE FileNode(OldContent, Perm0600)]

FaultDstTrees ==
  {<<>>} \cup
  {[TreeOf(FaultDstTemplate, S) EXCEPT ![Root].mode = m] :
     S \in {T \in SUBSET DOMAIN FaultDstTemplate : ParentClosed(T)},
     m \in {Perm0755, Perm0700}}

\* A source tree in which c/s is a directory that holds the file c/s/o.
SrcTreeDeep ==
  [q \in {Root, pO, pC, pCK, pCN, pCS, pCSO} |->
     IF q \in {Root, pC, pCS} THEN DirNode(Perm0755) ELSE FileNode(q, Perm0644)]

FaultSrcTrees ==
  {SrcTree, [SrcTree EXCEPT ![pCK].mode = Perm0000], SrcTreeDeep}

FaultSelections == UNION {[1..n -> {pO, pCN, pCK, pCO, pC}] : n \in 0..MaxSelect}

FaultPatternLists == { <<>>, << <<"*", ".", "j">> >> }

FaultInit ==
  /\ toDir = PlainToDir
  /\ cleanDest \in BOOLEAN
  /\ excl \in (IF cleanDest THEN FaultPatternLists ELSE {<<>>})
  /\ relativePaths \in FaultSelections
  /\ srcFS \in FaultSrcTrees
  /\ dstFS \in FaultDstTrees
  /\ unreadable \in {{}, {pCS}}
  /\ unremovable \in {{}, {pCSO}}
  /\ unreadable \subseteq DOMAIN dstFS /\ unremovable \subseteq DOMAIN dstFS
  /\ unreadable = {} \/ unremovable = {}
  /\ pc = "start"
  /\ pathsToRemove = {}
  /\ idx = 1
  /\ err = ""
  /\ run = 1
  /\ dst0 = dstFS
  /\ removed = {}
  /\ FinderIdle
  /\ AppIdle
  /\ NestIdle

\* One call of CopyFiles.
FaultNext ==
  ClearStart \/ SweepStep \/ SweepEnd \/ EnsureDest \/ CopyStep \/ CopyReturn

SpecFault == FaultInit /\ [][FaultNext]_vars

\* CopyFiles with the default exclude pattern, with and without clean, on
\* destinations that hold .gitkeep files.
KeepInit ==
  /\ toDir = PlainToDir
  /\ cleanDest \in BOOLEAN
  /\ excl = DefaultCleanExclude
  /\ relativePaths \in Selections
  /\ srcFS = SrcTree
  /\ dstFS \in KeepTrees
  /\ unreadable = {}
  /\ unremovable = {}
  /\ pc = "start"
  /\ pathsToRemove = {}
  /\ idx = 1
  /\ err = ""
  /\ run = 1
  /\ dst0 = dstFS
  /\ removed = {}
  /\ FinderIdle
  /\ AppIdle
  /\ NestIdle

SpecKeep == KeepInit /\ [][Next]_vars

\* FindFiles alone.
FindInit == FinderInit /\ CopierIdle /\ AppIdle /\ NestIdle

FindNext == FinderNext

SpecFind == FindInit /\ [][FindNext]_vars

\* Pattern lists of the runs with access errors.
FaultIncludeLists == { <<>>, << <<"*", ".", "j">> >> }
FaultExcludeLists == { <<>>, << <<"n">> >>, << <<"a", "/", "*">> >> }

\* FindFiles on a tree with access errors: rootDir cannot be statted, or
\* directories of the tree cannot be read.
FindFaultInit ==
  /\ rootFS \in RootTrees
  /\ rootErr \in {"none", "permission", "other"}
  /\ denied \in SUBSET {q \in DOMAIN rootFS : q \in {Root, fA, fAN, fN}}
  /\ rootErr # "none" => denied = {}
  /\ includes \in FaultIncludeLists
  /\ excludes \in FaultExcludeLists
  /\ fpc = "stat"
  /\ walkStack = <<>>
  /\ foundFiles = <<>>
  /\ parentDirs = {}
  /\ results = <<>>
  /\ ferr = ""
  /\ CopierIdle
  /\ AppIdle
  /\ NestIdle

SpecFindFault == FindFaultInit /\ [][FindNext]_vars

\* ------------------------------------------------------------------------
\* CopyFiles with toDir inside fromDir: one tree, copyDir call by call
\* ------------------------------------------------------------------------

\* Longest path the operating system accepts, in characters; a system call
\* on a longer path fails (ENAMETOOLONG).
PathMax == 9

\* Path strings of the shared tree: fromDir is s.
nS == <<"s">>
nT == <<"t">>
nSC == <<"s", "/", "c">>
nSCK == <<"s", "/", "c", "/", "k">>
nSD == <<"s", "/", "d">>
nSCD == <<"s", "/", "c", "/", "d">>

\* CopyFiles argument fromDir.
nFrom == nS

\* The system refuses the path.
TooLong(path) == Len(path) > PathMax

\* The source tree: the directory s/c with the file s/c/k.
NestBase ==
  [q \in {Root, nS, nSC, nSCK} |->
     IF q = nSCK THEN FileNode(<<"k">>, Perm0644) ELSE DirNode(Perm0755)]

\* toDir: beside fromDir, directly in fromDir, or in the source directory
\* s/c.
NestToDirs == {nT, nSD, nSCD}

\* The tree in which toDir holds an old copy c/k.
NestOldCopy(to) ==
  LET made == MkdirAll(NestBase, Join(to, <<"c">>), Perm0755)
      old == Join(to, <<"c", "/", "k">>)
  IN [q \in (DOMAIN made) \cup {old} |->
        IF q = old THEN FileNode(OldContent, Perm0644) ELSE made[q]]

\* The trees at the start: toDir is missing, is an empty directory, or holds
\* an old copy c/k.
NestTrees(to) == {NestBase, MkdirAll(NestBase, to, Perm0755), NestOldCopy(to)}

\* The relative paths a caller may list: c, c/k, d and c/d.
NestSelectable == { <<"c">>, <<"c", "/", "k">>, <<"d">>, <<"c", "/", "d">> }

NestSelections == UNION {[1..n -> NestSelectable] : n \in 0..MaxSelect}

\* CopyFiles(fromDir, toDir, relativePaths, cleanDest, nil) is called.
NestInit ==
  /\ nTo \in NestToDirs
  /\ tree \in NestTrees(nTo)
  /\ nClean \in BOOLEAN
  /\ nList \in NestSelections
  /\ npc = "start"
  /\ nIdx = 1
  /\ stack = <<>>
  /\ nerr = ""
  /\ CopierIdle
  /\ FinderIdle
  /\ AppIdle

\* clearDestinationDir(dir, nil) on a tree without hidden names: dir is
\* created when missing, else every entry below dir is removed.
NestClear(fs, dir) ==
  IF dir \notin DOMAIN fs THEN MkdirAll(fs, dir, Perm0755)
  ELSE [q \in {r \in DOMAIN fs : ~StrictlyUnder(r, dir)} |->
          IF q = dir THEN DirNode(Perm0755) ELSE fs[q]]

\* copyFile(src, dst) on the shared tree.
NestCopyFile(fs, src, dst) ==
  LET dstDir == Parent(dst)
      made == MkdirAll(fs, dstDir, Perm0755)
  IN IF TooLong(dstDir) \/ MkdirAllFails(fs, dstDir) THEN [ok |-> FALSE, fs |-> fs]
     ELSE IF TooLong(src) \/ src \notin DOMAIN made \/ made[src].kind # "file"
       THEN [ok |-> FALSE, fs |-> made]
     ELSE IF TooLong(dst) \/ (dst \in DOMAIN made /\ made[dst].kind = "dir")
       THEN [ok |-> FALSE, fs |-> made]
     ELSE [ok |-> TRUE,
           fs |-> [q \in (DOMAIN made) \cup {dst} |->
                     IF q # dst THEN made[q]
                     ELSE FileNode(IF src = dst THEN <<>> ELSE made[src].content,
                                   IF dst \in DOMAIN made THEN made[dst].mode
                                   ELSE made[src].mode)]]

\* A copyDir call: its arguments, where it stands (enter: before the check
\* of dst; entries: in the loop over the source entries), and the entries
\* of os.ReadDir(src) it has not copied yet.
Frame(src, dst) == [src |-> src, dst |-> dst, phase |-> "enter", entries |-> <<>>]

\* os.ReadDir(src) as copyDir keeps it: the entries with their kinds at the
\* time of the call.
NestReadDir(fs, src) ==
  [i \in 1..Len(ReadDir(fs, src)) |->
     [path |-> ReadDir(fs, src)[i], isDir |-> fs[ReadDir(fs, src)[i]].kind = "dir"]]

\* A CopyFiles that starts the listed path again when its copy fails.
NestFailRetries(fs, msg) ==
  /\ tree' = fs
  /\ stack' = <<>>
  /\ UNCHANGED <<npc, nIdx, nerr>>

\* CopyFiles returns the error.
NestFail(fs, msg) ==
  /\ tree' = fs
  /\ npc' = "done"
  /\ nerr' = msg
  /\ stack' = <<>>
  /\ UNCHANGED nIdx

\* CopyFiles before the copy loop: the clear, or os.MkdirAll(toDir).
NestBegin ==
  /\ npc = "start"
  /\ tree' = IF nClean THEN NestClear(tree, nTo) ELSE MkdirAll(tree, nTo, Perm0755)
  /\ npc' = "loop"
  /\ UNCHANGED <<nTo, nClean, nList, nIdx, stack, nerr>>
  /\ UNCHANGED <<copierVars, finderVars, appVars>>

\* The copy loop of CopyFiles between two listed paths: it returns nil
\* after the last one, otherwise it stats the source and copies a file or
\* calls copyDir.
NestLoop ==
  /\ npc = "loop" /\ stack = <<>>
  /\ IF nIdx > Len(nList) THEN
       /\ npc' = "done"
       /\ UNCHANGED <<tree, nIdx, stack, nerr>>
     ELSE
       LET srcPath == Join(nFrom, nList[nIdx])
           dstPath == Join(nTo, nList[nIdx])
       IN IF TooLong(srcPath) \/ srcPath \notin DOMAIN tree THEN
            NestFail(tree, "failed to get file info")
          ELSE IF tree[srcPath].kind = "dir" THEN
            /\ stack' = <<Frame(srcPath, dstPath)>>
            /\ UNCHANGED <<tree, npc, nIdx, nerr>>
          ELSE
            LET r == NestCopyFile(tree, srcPath, dstPath)
            IN IF r.ok THEN /\ tree' = r.fs
                            /\ nIdx' = nIdx + 1
                            /\ UNCHANGED <<npc, stack, nerr>>
               ELSE NestFail(r.fs, "failed to copy file")
  /\ UNCHANGED <<nTo, nClean, nList>>
  /\ UNCHANGED <<copierVars, finderVars, appVars>>

\* copyDir(src, dst) up to its loop over the source entries: os.Stat(dst)
\* (an error other than not-exist returns), the removal of the non-hidden
\* entries of an existing dst or os.MkdirAll(dst), os.Stat(src), os.Chmod,
\* os.ReadDir(src).
NestEnter ==
  /\ npc = "loop" /\ stack # <<>> /\ Head(stack).phase = "enter"
  /\ \E src \in {Head(stack).src}, dst \in {Head(stack).dst} :
       \E prepared \in
           { IF TooLong(dst) THEN [ok |-> FALSE, fs |-> tree]
             ELSE IF dst \in DOMAIN tree THEN
               IF tree[dst].kind # "dir" THEN [ok |-> FALSE, fs |-> tree]
               ELSE RemoveEntries(tree, ReadDir(tree, dst), {})
             ELSE IF MkdirAllFails(tree, dst) THEN [ok |-> FALSE, fs |-> tree]
             ELSE [ok |-> TRUE, fs |-> MkdirAll(tree, dst, Perm0755)] } :
         IF ~prepared.ok THEN NestFail(prepared.fs, "failed to copy directory")
         ELSE IF TooLong(src) \/ src \notin DOMAIN prepared.fs \/ prepared.fs[src].kind # "dir"
           THEN NestFail(prepared.fs, "failed to copy directory")
         ELSE
           /\ tree' = Chmod(prepared.fs, dst, prepared.fs[src].mode)
           /\ stack' = <<[Head(stack) EXCEPT !.phase = "entries",
                                             !.entries = NestReadDir(prepared.fs, src)]>>
                          \o Tail(stack)
           /\ UNCHANGED <<npc, nIdx, nerr>>
  /\ UNCHANGED <<nTo, nClean, nList>>
  /\ UNCHANGED <<copierVars, finderVars, appVars>>

\* One round of the loop of copyDir over the source entries: the call
\* returns nil after the last entry, otherwise it calls copyDir for a
\* directory entry and copyFile for any other.
NestEntry ==
  /\ npc = "loop" /\ stack # <<>> /\ Head(stack).phase = "entries"
  /\ \E top \in {Head(stack)} :
       IF top.entries = <<>> THEN
         /\ stack' = Tail(stack)
         /\ nIdx' = IF Tail(stack) = <<>> THEN nIdx + 1 ELSE nIdx
         /\ UNCHANGED <<tree, npc, nerr>>
       ELSE
         \E e \in {Head(top.entries)} :
           \E dstPath \in {Join(top.dst, Base(e.path))},
              rest \in {[top EXCEPT !.entries = Tail(top.entries)]} :
             IF e.isDir THEN
               /\ stack' = <<Frame(e.path, dstPath), rest>> \o Tail(stack)
               /\ UNCHANGED <<tree, npc, nIdx, nerr>>
             ELSE
               \E r \in {NestCopyFile(tree, e.path, dstPath)} :
                 IF r.ok THEN /\ tree' = r.fs
                              /\ stack' = <<rest>> \o Tail(stack)
                              /\ UNCHANGED <<npc, nIdx, nerr>>
                 ELSE NestFail(r.fs, "failed to copy directory")
  /\ UNCHANGED <<nTo, nClean, nList>>
  /\ UNCHANGED <<copierVars, finderVars, appVars>>

NestNext == NestBegin \/ NestLoop \/ NestEnter \/ NestEntry

\* CopyFiles runs in one goroutine: as long as the call has not returned,
\* its next step is taken.
SpecNest == NestInit /\ [][NestNext]_vars /\ WF_vars(NestNext)

\* ------------------------------------------------------------------------
\* Properties of the clear (clearDestinationDir)
\* ------------------------------------------------------------------------

\* P is hidden or matches a pattern of E by its path relative to dir.
SelfKept(P) == IsHiddenName(Base(P)) \/ matchesAnyPattern(P, excl)

\* P is hidden or matches E, or a directory between dir and P does.
KeptByNameOrAncestor(P) == SelfKept(P) \/ \E A \in Ancestors(P) : SelfKept(A)

\* The transitive preservation rule over the set S of existing paths: P is
\* hidden, matches E, lies beneath a hidden or matching directory, or holds a
\* descendant that does.
MustSurvive(P, S) ==
  \/ KeptByNameOrAncestor(P)
  \/ \E Q \in S : StrictlyUnder(Q, P) /\ KeptByNameOrAncestor(Q)

\* The listed paths are files of the source tree.
ListedFiles == {relativePaths[i] : i \in 1..Len(relativePaths)}
AllListedAreFiles == \A L \in ListedFiles : L \in DOMAIN srcFS /\ srcFS[L].kind = "file"

\* The clear of the current call has just returned nil.
JustCleared == pc = "copy" /\ idx = 1 /\ cleanDest

\* C1: every path removed by the sweep, directly or together with a removed
\* ancestor, is not hidden, matches no pattern of E, has no hidden or matching
\* ancestor below dir and held no preserved descendant when it was removed.
C1_RemovedNeverPreserved ==
  \A r \in removed : \A P \in r.gone : ~MustSurvive(P, r.gone)

\* A sweep with exclude patterns removed a directory and a file while a
\* matching path and the directory that holds it stayed.
C1_Witness ==
  /\ JustCleared /\ excl # <<>>
  /\ \E r \in removed : dst0[r.path].kind = "dir"
  /\ \E r \in removed : dst0[r.path].kind = "file"
  /\ \E P \in DOMAIN dstFS : P # Root /\ ~IsHiddenName(Base(P)) /\ SelfKept(P) /\ Parent(P) # Root

\* C2: after a clear without failures every remaining path is hidden,
\* matches E, lies beneath a hidden or matching directory, or is a directory
\* that still holds a preserved descendant.
C2_OnlyPreservedRemain ==
  JustCleared =>
    \A P \in (DOMAIN dstFS) \ {Root} : MustSurvive(P, DOMAIN dstFS)

\* C3: the decision of the preservation check for a path below dir is the
\* same wherever dir is located and whatever dir is called.
C3_LocationIndependent ==
  pc = "sweep" =>
    \A p \in pathsToRemove \cap DOMAIN dstFS : \A loc \in ToDirs :
      checkPreservationRecursiveWithBase(dstFS, p, loc, excl, unreadable)
        = checkPreservationRecursiveWithBase(dstFS, p, toDir, excl, unreadable)

\* ------------------------------------------------------------------------
\* Properties of CopyFiles
\* ------------------------------------------------------------------------

\* CopyFiles has returned nil.
Succeeded == pc = "done" /\ err = ""

\* The directories above the listed paths.
ListedAncestors == UNION {Ancestors(L) : L \in ListedFiles}

\* The paths of the previous destination that the preservation rule keeps.
Kept0 == {P \in (DOMAIN dst0) \ {Root} : MustSurvive(P, DOMAIN dst0)}

\* C4: after a successful clean copy of listed files the destination holds
\* exactly the preserved paths of the previous destination, the listed paths
\* and their ancestor directories; listed files carry the source content and
\* the other preserved files keep theirs.
C4_CleanCopyResult ==
  (Succeeded /\ cleanDest /\ AllListedAreFiles) =>
    /\ (DOMAIN dstFS) \ {Root} = Kept0 \cup ListedFiles \cup ListedAncestors
    /\ \A L \in ListedFiles : dstFS[L].kind = "file" /\ dstFS[L].content = srcFS[L].content
    /\ \A P \in Kept0 \ ListedFiles :
         dst0[P].kind = "file" => dstFS[P].content = dst0[P].content

\* The source paths a call copies: each listed path and, for a listed
\* directory, everything beneath it in the source tree.
CopiedSources ==
  {q \in DOMAIN srcFS : \E L \in ListedFiles : L \in DOMAIN srcFS /\ q # Root /\ Under(q, L)}

\* P existed before the call and is still there with the same kind and content.
Untouched(P) ==
  /\ P \in DOMAIN dstFS
  /\ dstFS[P].kind = dst0[P].kind
  /\ dstFS[P].content = dst0[P].content

\* C5 as stated: without clean, toDir exists afterwards and every previous
\* path that is not the counterpart of a copied source path is untouched, for
\* lists of files and directories alike.
C5_UnrelatedUntouched ==
  (pc = "done" /\ ~cleanDest) =>
    /\ Root \in DOMAIN dstFS
    /\ \A P \in (DOMAIN dst0) \ {Root} : P \notin CopiedSources => Untouched(P)

\* P lies in the destination counterpart of a listed source directory, in or
\* beneath an entry of it whose name is not hidden.
InClearedEntry(P) ==
  \E L \in ListedFiles :
    /\ L \in DOMAIN srcFS /\ srcFS[L].kind = "dir"
    /\ \E e \in DOMAIN dst0 : e # Root /\ Parent(e) = L /\ ~IsHiddenName(Base(e)) /\ Under(P, e)

\* C5 amended: the same, except for the non-hidden entries of the existing
\* destination counterpart of a listed directory, which copyDir removes.
C5_UnrelatedUntouchedExceptDirEntries ==
  (pc = "done" /\ ~cleanDest) =>
    /\ Root \in DOMAIN dstFS
    /\ \A P \in (DOMAIN dst0) \ {Root} :
         (P \notin CopiedSources /\ ~InClearedEntry(P)) => Untouched(P)

\* A copy without clean of a listed directory ended; a hidden entry of the
\* existing destination directory and an unrelated file outside it stayed,
\* and an unrelated non-hidden entry is gone.
C5_Witness ==
  /\ pc = "done" /\ ~cleanDest /\ pC \in ListedFiles
  /\ pCH \in DOMAIN dst0 /\ pCH \in DOMAIN dstFS
  /\ pCO \in DOMAIN dst0 /\ pCO \notin DOMAIN dstFS
  /\ pO \in DOMAIN dst0 /\ pO \notin ListedFiles /\ Untouched(pO)

\* The destination was missing or empty when the call started.
EmptyBefore == (DOMAIN dst0) \subseteq {Root}

\* C6: copying listed files without clean into an empty or missing
\* destination succeeds and leaves exactly the listed paths and their
\* ancestor directories, each file with the content of its source.
C6_RoundTrip ==
  (pc = "done" /\ ~cleanDest /\ EmptyBefore /\ AllListedAreFiles) =>
    /\ err = ""
    /\ DOMAIN dstFS = {Root} \cup ListedFiles \cup ListedAncestors
    /\ \A L \in ListedFiles : dstFS[L].kind = "file" /\ dstFS[L].content = srcFS[L].content
    /\ \A A \in ListedAncestors : dstFS[A].kind = "dir"

\* Two different files, one of them nested, were copied into a missing
\* destination.
C6_Witness ==
  /\ pc = "done" /\ ~cleanDest /\ dst0 = <<>> /\ AllListedAreFiles
  /\ ListedFiles = {pO, pCK}
  /\ pCK \in DOMAIN dstFS

MatchesSome(path, patterns) ==
  \E i \in 1..Len(patterns) : FinderMatchesPattern(path, patterns[i])

\* The files and directories of the tree below the root.
RootFiles == {q \in DOMAIN rootFS : rootFS[q].kind = "file"}
RootDirs == {q \in DOMAIN rootFS : q # Root /\ rootFS[q].kind = "dir"}

\* FindFiles has returned a result.
Found == fpc = "done" /\ ferr = ""

\* C8: shouldInclude is true exactly for the paths that match no exclude
\* pattern and, when include patterns are given, match one of them; no path
\* in the result of FindFiles matches an exclude pattern.
C8_InclusionDecision ==
  /\ \A p \in DOMAIN RootTemplate :
       shouldInclude(p, includes, excludes)
         <=> (~MatchesSome(p, excludes) /\ (includes = <<>> \/ MatchesSome(p, includes)))
  /\ Found => \A r \in Range(results) : ~MatchesSome(r, excludes)

\* FindFiles returned files although a file of the tree matches both an
\* include and an exclude pattern.
C8_Witness ==
  /\ Found /\ results # <<>>
  /\ \E p \in RootFiles : MatchesSome(p, excludes) /\ MatchesSome(p, includes)
  /\ \E p \in RootFiles : ~MatchesSome(p, excludes) /\ MatchesSome(p, includes)

\* C9: when a directory below the root matches an exclude pattern (full
\* relative path, base name for a pattern without separator, or dir/* and
\* dir/** form), neither it nor anything beneath it is in the result.
C9_ExcludedSubtreeSkipped ==
  Found =>
    \A d \in RootDirs :
      MatchesSome(d, excludes) => \A r \in Range(results) : ~Under(r, d)

\* The files the walk reaches and shouldInclude accepts: no directory above
\* them is skipped by the walk.
IncludedFiles ==
  {f \in RootFiles :
     /\ \A d \in Ancestors(f) : ~isDirExcluded(d, excludes)
     /\ ~MatchesSome(f, excludes)
     /\ (includes = <<>> \/ MatchesSome(f, includes))}

C11_DescendingChildrenFirst ==
  Found =>
    /\ \A i \in 1..Len(results) : \A j \in 1..Len(results) :
         i < j => StrLess(results[j], results[i])
    /\ \A i \in 1..Len(results) : \A j \in 1..Len(results) :
         results[j] \in Ancestors(results[i]) => i < j

\* FindFiles returned a file at depth three, the two directories above it
\* and an entry of another top-level directory.
C11_Witness ==
  /\ Found
  /\ {fANK, fAN, fA} \subseteq Range(results)
  /\ \E r \in Range(results) : ~Under(r, fA)
  /\ Len(results) >= 5

\* C12: the result of FindFiles is ordered longest path first: of any two
\* entries the earlier one has a path at least as long as the later one.
C12_LongestFirst ==
  Found =>
    \A i \in 1..Len(results) : \A j \in 1..Len(results) :
      i < j => Len(results[i]) >= Len(results[j])

\* C12, as the code has it: of any two entries of the result of which one is
\* a textual prefix of the other, the earlier one has the longer path.
C12_LongestFirstOnAChain ==
  Found =>
    \A i \in 1..Len(results) : \A j \in 1..Len(results) :
      (i < j /\ (HasPrefix(results[i], results[j]) \/ HasPrefix(results[j], results[i])))
        => Len(results[i]) > Len(results[j])

\* FindFiles returned a short path before a longer one, and a path together
\* with a directory above it.
C12_Witness ==
  /\ Found
  /\ \E i \in 1..Len(results) : \E j \in 1..Len(results) :
       i < j /\ Len(results[i]) < Len(results[j])
  /\ \E i \in 1..Len(results) : \E j \in 1..Len(results) :
       i < j /\ results[j] \in Ancestors(results[i])

\* ------------------------------------------------------------------------
\* Properties of the pattern matchers
\* ------------------------------------------------------------------------

\* The directory a scope form D/* or D/** names.
ScopeDir(pattern) ==
  IF HasSuffix(pattern, <<Sep, "*", "*">>) THEN TrimSuffix(pattern, <<Sep, "*", "*">>)
  ELSE TrimSuffix(pattern, <<Sep, "*">>)

\* The path is the directory D or lies at any depth beneath it.
InScope(path, D) == path = D \/ HasPrefix(path, D \o <<Sep>>)

\* C13: every include or exclude pattern of the form D/* or D/** matches D
\* itself and every path that begins with D/, in finder.shouldInclude, in
\* app.matchesAnyPattern and in copier.matchesAnyPattern alike.
C13_ScopeForms ==
  \A P \in Range(includes) \cup Range(excludes) :
    IsScopeForm(P) =>
      \A q \in DOMAIN RootTemplate :
        InScope(q, ScopeDir(P)) =>
          /\ FinderMatchesPattern(q, P)
          /\ AppMatchesPattern(q, P)
          /\ CopierMatchesPattern(q, P)

C15_MissingRoot ==
  StatRoot = "not exist" =>
    /\ fpc \in {"stat", "done"}
    /\ walkStack = <<>> /\ foundFiles = <<>> /\ parentDirs = {}
    /\ fpc = "done" => (ferr = "not exist" /\ results = <<>>)

\* FindFiles has returned for a rootDir that does not exist, called with
\* include and exclude patterns.
C15_Witness ==
  /\ StatRoot = "not exist"
  /\ fpc = "done" /\ ferr # ""
  /\ includes # <<>> /\ excludes # <<>>

\* C16: when rootDir cannot be statted, for whatever cause, FindFiles does
\* not crash and returns an error and no result.
C16_StatFailureIsError ==
  StatRoot # "" =>
    /\ fpc # "panic"
    /\ fpc = "done" => (ferr # "" /\ results = <<>>)

\* The files the walk reaches and accepts when directories cannot be read:
\* the included files with no unreadable directory above them.
ReachedFiles ==
  {f \in IncludedFiles : Root \notin denied /\ \A d \in Ancestors(f) : d \notin denied}

GitKeeps0 == {P \in DOMAIN dst0 : P # Root /\ Base(P) = GitKeep /\ dst0[P].kind = "file"}

\* C18: after a clean copy with the exclude patterns [".gitkeep"] every
\* .gitkeep file the destination held is still there with its content, and
\* so is every directory above it; when the call succeeds every listed file
\* carries the content of its source.
C18_GitkeepSurvives ==
  (pc = "done" /\ cleanDest /\ excl = DefaultCleanExclude) =>
    /\ \A P \in GitKeeps0 :
         /\ Untouched(P)
         /\ \A A \in Ancestors(P) : A \in DOMAIN dstFS /\ dstFS[A].kind = "dir"
    /\ err = "" =>
         \A L \in ListedFiles :
           srcFS[L].kind = "file" =>
             (L \in DOMAIN dstFS /\ dstFS[L].content = srcFS[L].content)

\* ------------------------------------------------------------------------
\* Properties of App.Run
\* ------------------------------------------------------------------------

\* Run has returned without a call of CopyFiles after the selector was
\* aborted, returned no index, or the answer was neither y nor Y.
Declined ==
  /\ apc = "done"
  /\ \/ selOutcome = "abort"
     \/ selOutcome = "ok" /\ Len(indices) = 0
     \/ selOutcome = "ok" /\ Len(indices) > 0 /\ response \notin {"y", "Y"}

Preselected == apc \in {"select", "confirm", "copy", "done"} /\ ferr = "" /\ Len(results) > 0

\* C20: with SelectAll every candidate index is preselected whatever the
\* PreSelect patterns are; otherwise, with PreSelect patterns, exactly the
\* indices of the candidates that match one of them; with neither, none.
\* Every preselected index is the index of a candidate, which passed the
\* Finder's filter.
C20_Preselection ==
  Preselected =>
    /\ preselected =
         IF selectAll THEN 0..(Len(results) - 1)
         ELSE IF preSelect # <<>>
              THEN {i \in 0..(Len(results) - 1) :
                      \E k \in 1..Len(preSelect) : AppMatchesPattern(results[i + 1], preSelect[k])}
              ELSE {}
    /\ \A i \in preselected :
         /\ i \in 0..(Len(results) - 1)
         /\ ~MatchesSome(results[i + 1], excludes)
         /\ results[i + 1] \in RootFiles => shouldInclude(results[i + 1], includes, excludes)

\* Without SelectAll the PreSelect patterns preselected some candidates but
\* not all, and a file of the tree that matches them is no candidate.
C20_Witness ==
  /\ Preselected /\ ~selectAll /\ preSelect # <<>>
  /\ preselected # {} /\ preselected # 0..(Len(results) - 1)
  /\ \E f \in RootFiles : AppMatchesAnyPattern(f, preSelect) /\ f \notin Range(results)

\* ------------------------------------------------------------------------
\* Properties of CopyFiles under faults
\* ------------------------------------------------------------------------

CopyFailed == pc = "done" /\ err = "failed to copy"

\* The listed paths before and after the one that failed.
ListedBefore == {relativePaths[i] : i \in 1..(idx - 1)}
ListedAfter == {relativePaths[i] : i \in (idx + 1)..Len(relativePaths)}

\* L is at the destination as the source has it.
CopiedAt(L) ==
  /\ L \in DOMAIN dstFS /\ L \in DOMAIN srcFS
  /\ dstFS[L].kind = srcFS[L].kind
  /\ srcFS[L].kind = "file" => dstFS[L].content = srcFS[L].content

\* L was written by no step: it is absent, or it is the entry the
\* destination held before the call.
NotCopied(L) == L \notin DOMAIN dstFS \/ (L \in DOMAIN dst0 /\ Untouched(L))

\* C22 as stated: when the copy of the k-th listed path fails (no removal
\* failure involved), the paths listed before it are at the destination as
\* the source has them, a file listed only after it was not written, and
\* with clean what the sweep removed outside the listed paths stays
\* removed.
C22_FailureAborts ==
  (CopyFailed /\ unremovable = {}) =>
    /\ \A L \in ListedBefore : CopiedAt(L)
    /\ \A L \in ListedAfter :
         (L \in DOMAIN srcFS /\ srcFS[L].kind = "file"
            /\ ~\E M \in ListedBefore \cup {relativePaths[idx]} : Under(L, M))
           => NotCopied(L)
    /\ \A r \in removed : \A P \in r.gone :
         (~\E i \in 1..idx : Under(P, relativePaths[i]) \/ Under(relativePaths[i], P))
           => P \notin DOMAIN dstFS

\* C22 amended: the same, but a path listed before the k-th is only
\* promised to be there when it does not lie in or beneath the k-th path.
C22_FailureAbortsOutsideFailedDir ==
  (CopyFailed /\ unremovable = {}) =>
    /\ \A L \in ListedBefore : ~Under(L, relativePaths[idx]) => CopiedAt(L)
    /\ \A L \in ListedAfter :
         (L \in DOMAIN srcFS /\ srcFS[L].kind = "file"
            /\ ~\E M \in ListedBefore \cup {relativePaths[idx]} : Under(L, M))
           => NotCopied(L)
    /\ \A r \in removed : \A P \in r.gone :
         (~\E i \in 1..idx : Under(P, relativePaths[i]) \/ Under(relativePaths[i], P))
           => P \notin DOMAIN dstFS

\* A clean copy failed at its second listed path after the sweep removed an
\* entry; the first listed path is at the destination.
C22_Witness ==
  /\ CopyFailed /\ unremovable = {} /\ cleanDest
  /\ idx = 2 /\ removed # {}
  /\ CopiedAt(relativePaths[1])
  /\ relativePaths[1] # relativePaths[2]

\* C23: a removal that fails does not stop the sweep: when the clear has
\* returned, the entry that could not be removed is still there, every
\* other entry that nothing preserves and that does not hold the stuck
\* entry is gone, and CopyFiles is in its copy loop with no error.
C23_SweepBestEffort ==
  (JustCleared /\ unremovable # {}) =>
    /\ err = ""
    /\ \A u \in unremovable : u \in DOMAIN dst0 => u \in DOMAIN dstFS
    /\ \A P \in (DOMAIN dst0) \ {Root} :
         P \in DOMAIN dstFS =>
           \/ MustSurvive(P, DOMAIN dst0)
           \/ \E u \in unremovable : u \in DOMAIN dst0 /\ Under(u, P)

\* A removal failed on c/s/o and the sweep still removed the file o, which
\* it reaches later.
C23_Witness ==
  /\ JustCleared /\ err = ""
  /\ pCSO \in unremovable /\ pCSO \in DOMAIN dstFS
  /\ \E r \in removed : r.path = pCS /\ pCSO \notin r.gone
  /\ pO \in DOMAIN dst0 /\ pO \notin DOMAIN dstFS

\* After a failed removal the call still copies: it returns nil with a
\* listed file written and the stuck entry in place.
C23_WitnessCopied ==
  /\ Succeeded /\ cleanDest /\ pCSO \in unremovable /\ pCSO \in DOMAIN dstFS
  /\ Len(relativePaths) > 0 /\ CopiedAt(relativePaths[1])

\* C24: a destination directory that cannot be read does not abort the
\* clear: once the clear is over the call carries no error, the unreadable
\* directory is still in place, and every other entry that nothing
\* preserves and that does not hold the unreadable directory is gone.
C24_UnreadableSkipped ==
  (cleanDest /\ pc \in {"copy", "done"}
     /\ \E d \in unreadable : d \in DOMAIN dst0) =>
    /\ err # "error walking destination directory"
    /\ \A d \in unreadable : d \in DOMAIN dst0 => d \in DOMAIN dstFS
    /\ \A P \in (DOMAIN dst0) \ {Root} :
         (P \in DOMAIN dstFS /\ Untouched(P) /\ ~\E L \in ListedFiles : Under(P, L) \/ Under(L, P)) =>
           \/ MustSurvive(P, DOMAIN dst0)
           \/ \E d \in unreadable : Under(d, P) \/ Under(P, d)

\* What the code does with an unreadable destination directory: the walk
\* that collects the paths fails, nothing is removed, nothing is copied,
\* and CopyFiles returns the error.
C24_WalkErrorAborts ==
  (cleanDest /\ pc \in {"copy", "done"}
     /\ \E d \in unreadable : d \in DOMAIN dst0) =>
    /\ pc = "done"
    /\ err = "error walking destination directory"
    /\ dstFS = dst0
    /\ removed = {}

\* A clean call on a destination with the unreadable directory c/s and
\* the removable file o ended with the walk error.
C24_Witness ==
  /\ cleanDest /\ pc = "done" /\ pCS \in unreadable /\ pCS \in DOMAIN dst0
  /\ pO \in DOMAIN dst0
  /\ err = "error walking destination directory"

\* C25: a file that a step of the copy loop has copied carries the
\* permission bits of its source, whether the destination file existed
\* before the copy or not.
C25_ModeCarried ==
  \A i \in 1..(idx - 1) :
    LET L == relativePaths[i]
    IN (pc \in {"copy", "done"} /\ L \in DOMAIN srcFS /\ srcFS[L].kind = "file"
          /\ L \in DOMAIN dstFS)
         => dstFS[L].mode = srcFS[L].mode

\* What the code does: the copied file carries the bits of its source when
\* the copy created it, and the bits it had when the copy overwrote it.
C25_ModeOnCreateOnly ==
  \A i \in 1..(idx - 1) :
    LET L == relativePaths[i]
    IN (pc \in {"copy", "done"} /\ L \in DOMAIN srcFS /\ srcFS[L].kind = "file"
          /\ L \in DOMAIN dstFS)
         => \/ dstFS[L].mode = srcFS[L].mode
            \/ L \in DOMAIN dst0 /\ dst0[L].kind = "file" /\ dstFS[L].mode = dst0[L].mode

\* The preserved destination file c/k.j (mode 0600) was overwritten by the
\* copy of a source file with mode 0644 and kept its mode.
C25_Witness ==
  /\ Succeeded /\ cleanDest /\ relativePaths = <<pCK>>
  /\ dstFS[pCK].content = srcFS[pCK].content
  /\ dstFS[pCK].mode = Perm0600 /\ srcFS[pCK].mode = Perm0644

\* ------------------------------------------------------------------------
\* Properties of the clear for a pattern D/<glob>
\* ------------------------------------------------------------------------

\* The pattern c/*.j: a separator, a wildcard, and no scope form.
DirGlob == <<"c", "/", "*", ".", "j">>

\* What the claim keeps under the single pattern c/*.j: the directory c, the
\* files directly in c that match, and the hidden entries.
KeptByDirGlob(P) ==
  \/ P = pC
  \/ Parent(P) = pC /\ Match(DirGlob, P)
  \/ IsHiddenName(Base(P)) \/ \E A \in Ancestors(P) : IsHiddenName(Base(A))

\* C26 as stated: after a clear with the one pattern c/*.j the destination
\* holds, of what it held before, exactly the directory c, the files
\* directly in c that match, and the hidden entries.
C26_DirGlob ==
  (JustCleared /\ excl = <<DirGlob>> /\ unremovable = {}) =>
    \A P \in (DOMAIN dst0) \ {Root} : P \in DOMAIN dstFS <=> KeptByDirGlob(P)

\* The same for a destination whose own path has no hidden component.
C26_DirGlobPlainDir ==
  (JustCleared /\ excl = <<DirGlob>> /\ unremovable = {} /\ toDir = PlainToDir) =>
    \A P \in (DOMAIN dst0) \ {Root} : P \in DOMAIN dstFS <=> KeptByDirGlob(P)

\* A clear with c/*.j kept the directory c, which held no matching file,
\* and removed its entry c/o.
C26_Witness ==
  /\ JustCleared /\ excl = <<DirGlob>> /\ toDir = PlainToDir
  /\ pCK \notin DOMAIN dst0 /\ pCO \in DOMAIN dst0
  /\ pC \in DOMAIN dstFS /\ pCO \notin DOMAIN dstFS

\* A clear with c/*.j kept c/k.j and removed c/o and o.
C26_WitnessMatch ==
  /\ JustCleared /\ excl = <<DirGlob>> /\ toDir = PlainToDir
  /\ {pCK, pCO, pO} \subseteq DOMAIN dst0
  /\ pCK \in DOMAIN dstFS /\ pCO \notin DOMAIN dstFS /\ pO \notin DOMAIN dstFS

\* ------------------------------------------------------------------------
\* Properties of copyDir within CopyFiles
\* ------------------------------------------------------------------------

\* The step of the copy loop at hand copies the listed directory D, whose
\* destination counterpart exists, and succeeds.
CopiesOverExistingDir(D) ==
  /\ pc = "copy" /\ idx <= Len(relativePaths) /\ idx' = idx + 1
  /\ D = relativePaths[idx]
  /\ D \in DOMAIN srcFS /\ srcFS[D].kind = "dir"
  /\ D \in DOMAIN dstFS

\* P lies in or beneath an entry of D whose name starts with a dot.
InHiddenEntryOf(P, D) ==
  \E e \in Ancestors(P) \cup {P} : Parent(e) = D /\ IsHiddenName(Base(e)) /\ Under(P, e)

\* C27: a step that copies a listed directory D over its existing
\* destination counterpart leaves every destination entry outside D as it
\* was, puts every source entry beneath D at the destination as the source
\* has it, keeps what lies in the hidden entries of D, removes every other
\* former entry of D, and creates nothing else; this for either value of
\* the clean flag and every pattern list.
C27_CopyDirStep ==
  [][\A D \in (DOMAIN srcFS) \ {Root} :
       CopiesOverExistingDir(D) =>
         /\ \A P \in (DOMAIN dstFS) \cup (DOMAIN dstFS') :
              ~Under(P, D) => /\ P \in DOMAIN dstFS /\ P \in DOMAIN dstFS'
                              /\ dstFS'[P] = dstFS[P]
         /\ \A P \in DOMAIN srcFS :
              StrictlyUnder(P, D) =>
                /\ P \in DOMAIN dstFS'
                /\ dstFS'[P].kind = srcFS[P].kind
                /\ srcFS[P].kind = "file" => dstFS'[P].content = srcFS[P].content
         /\ \A P \in DOMAIN dstFS :
              (StrictlyUnder(P, D) /\ P \notin DOMAIN srcFS) =>
                IF InHiddenEntryOf(P, D) THEN P \in DOMAIN dstFS' /\ dstFS'[P] = dstFS[P]
                ELSE P \notin DOMAIN dstFS'
         /\ DOMAIN dstFS' \subseteq (DOMAIN dstFS) \cup (DOMAIN srcFS)]_vars

\* The directory c was copied over a destination c that held the hidden
\* file c/.h and the file c/o, which a clear with the pattern o had kept:
\* c/.h is still there, c/o is gone, the source file c/n is there, and the
\* file o outside c is as the clear left it.
C27_Witness ==
  /\ pc = "copy" /\ idx = 2 /\ relativePaths[1] = pC
  /\ cleanDest /\ excl = << <<"o">>, DirGlob >>
  /\ {pCH, pCO, pO} \subseteq DOMAIN dst0
  /\ pCH \in DOMAIN dstFS /\ Untouched(pCH)
  /\ pCO \notin DOMAIN dstFS
  /\ CopiedAt(pCN)
  /\ pO \in DOMAIN dstFS /\ Untouched(pO)

\* The same without a clear.
C27_WitnessNoClean ==
  /\ pc = "copy" /\ idx = 2 /\ relativePaths[1] = pC
  /\ ~cleanDest
  /\ {pCH, pCO, pO} \subseteq DOMAIN dst0
  /\ pCH \in DOMAIN dstFS /\ Untouched(pCH)
  /\ pCO \notin DOMAIN dstFS
  /\ CopiedAt(pCN)
  /\ pO \in DOMAIN dstFS /\ Untouched(pO)

\* ------------------------------------------------------------------------
\* Order of the clear and the copy
\* ------------------------------------------------------------------------

\* C28 as stated: in a call with clean, once a listed path has been copied,
\* no step of the call removes a destination path, and the sweep records no
\* further removal.
C28_NoRemovalAfterCopy ==
  [][(cleanDest /\ pc = "copy" /\ idx > 1) =>
       /\ DOMAIN dstFS \subseteq DOMAIN dstFS'
       /\ removed' = removed
       /\ pc' \in {"copy", "done"}]_vars

\* C28 amended: once the copy loop has begun the sweep of the clear does
\* nothing more, and a step of the copy loop removes a destination path only
\* strictly inside the listed directory it is copying.
C28_SweepBeforeCopy ==
  [][pc = "copy" =>
       /\ removed' = removed
       /\ pathsToRemove' = pathsToRemove
       /\ pc' \in {"copy", "done"}
       /\ \A P \in (DOMAIN dstFS) \ (DOMAIN dstFS') :
            /\ idx <= Len(relativePaths)
            /\ relativePaths[idx] \in DOMAIN srcFS
            /\ srcFS[relativePaths[idx]].kind = "dir"
            /\ StrictlyUnder(P, relativePaths[idx])]_vars

\* A clean call listing c/k.j and then c has returned: the sweep had removed
\* entries, c/k.j was copied first, and the copy of c then removed c/o,
\* which the clear had kept.
C28_Witness ==
  /\ Succeeded /\ cleanDest /\ excl = << <<"o">>, DirGlob >>
  /\ relativePaths = <<pCK, pC>>
  /\ removed # {}
  /\ pCO \in DOMAIN dst0 /\ pCO \notin DOMAIN dstFS
  /\ CopiedAt(pCK) /\ CopiedAt(pCN)

\* ------------------------------------------------------------------------
\* Properties of the run from the Finder to the Copier
\* ------------------------------------------------------------------------

\* The source file f has been written to the destination: the destination
\* holds a file at f with the content of the source file.
WrittenToDest(f) ==
  /\ f \in DOMAIN dstFS
  /\ dstFS[f].kind = "file"
  /\ dstFS[f].content = rootFS[f].content

\* C29: whatever the user selects among the candidates, a source file that
\* matches an exclude pattern, or that matches no pattern of a non-empty
\* include list, is never written to the destination.
C29_FilteredNeverCopied ==
  \A f \in RootFiles :
    WrittenToDest(f) =>
      /\ ~MatchesSome(f, excludes)
      /\ includes # <<>> => MatchesSome(f, includes)

\* What does hold: a source file written to the destination passed the
\* filter or lies beneath a selected directory.
C29_FilteredOnlyInSelectedDir ==
  \A f \in RootFiles :
    WrittenToDest(f) =>
      \/ shouldInclude(f, includes, excludes)
      \/ \E i \in 1..Len(relativePaths) :
           relativePaths[i] \in RootDirs /\ StrictlyUnder(f, relativePaths[i])

\* With --include *.j the user selected the candidate directory a, and the
\* call wrote a/o, which no include pattern matches.
C29_Witness ==
  /\ apc = "done" /\ aerr = "" /\ includes = << <<"*", ".", "j">> >>
  /\ relativePaths = <<fA>>
  /\ WrittenToDest(fAO) /\ WrittenToDest(fANK)

\* With --exclude o and --select-all the user confirmed a selection that
\* holds the candidate directory a, and the call wrote a/o, which the
\* exclude pattern matches and the candidates do not hold.
C29_WitnessExclude ==
  /\ apc = "done" /\ aerr = "" /\ excludes = << <<"o">> >> /\ selectAll
  /\ fA \in Range(relativePaths)
  /\ fAO \notin Range(results)
  /\ WrittenToDest(fAO)

\* ------------------------------------------------------------------------
\* Termination of CopyFiles
\* ------------------------------------------------------------------------

\* C30: every call of CopyFiles returns, also when toDir lies in fromDir or
\* in a listed source directory.
C30_Terminates == <>(npc = "done")

\* With toDir s/c/d the listed directory c was copied into itself: the call
\* returned an error and left the chain s/c/d/c/d behind.
C30_Witness ==
  /\ npc = "done" /\ nerr # ""
  /\ nTo = nSCD /\ nList = << <<"c">> >>
  /\ Join(nSCD, <<"c", "/", "d">>) \in DOMAIN tree

\* With toDir s/d, in fromDir but in no listed directory, the copy of c
\* returned nil.
C30_WitnessInFromDir ==
  /\ npc = "done" /\ nerr = ""
  /\ nTo = nSD /\ nList = << <<"c">> >>
  /\ Join(nSD, <<"c", "/", "k">>) \in DOMAIN tree

====
